---------------------------- MODULE Spec2Model ----------------------------
(***************************************************************************)
(* Scroll-synchronised particle state machine of the paper-crane landing   *)
(* page: the helix visual (EtherealParticles.jsx), the crane visual        *)
(* (CraneParticles.jsx, src/unnamed/part_001), the scene forwarding chain  *)
(* (Experience.jsx) and the section scroll bridge (ContentSections.jsx).   *)
(*                                                                         *)
(* Numbers are fixed point: every uniform value is held in hundredths      *)
(* (2.5 is 250) and every time in fiftieths of a second (2 s is 100).      *)
(***************************************************************************)
EXTENDS Integers, Sequences, FiniteSets, TLC

(***************************************************************************)
(* Bounds of the model.                                                    *)
(***************************************************************************)
\* transitionToState calls counted in one run (the store's specification
\* stops there).
MaxRequests == 2

\* ScrollTrigger updates counted in one run (the fade specification stops
\* there).
MaxScrollUpdates == 2

\* Text elements of a section's content that animateIn staggers.
ElementCount == 2

\* The longest animation clip considered, in seconds, and the vertex count
\* of the smallest mesh.
MaxClipDuration == 2
MinVertices == 3

\* Re-renders of the two visuals counted in one run.
MaxRenders == 2

\* The wall-clock time, in sixtieths of a second, and the keyframe advances
\* counted in one run.
MaxWall == 8
MaxAdvances == 3

\* The clicks on the enter screen in one run.
MaxClicks == 3

(***************************************************************************)
(* Fixed-point representation.                                             *)
(***************************************************************************)
\* The value 1 (uScroll's end value, an opacity of 1) in hundredths.
One == 100

\* JavaScript's undefined, which is no number: reading a field an object
\* does not have (state.tightness of an inherited, non-descriptor value).
Undefined == -1000000

(***************************************************************************)
(* State tables.                                                           *)
(***************************************************************************)
\* The sections with the last one under a name the state tables lack.
SectionIdsContact == <<"hero", "problem", "team", "philosophy",
                       "services", "process", "quote", "contact">>

\* The section identifiers, in document order.
SectionIds == <<"hero", "problem", "team", "philosophy",
                "services", "process", "quote", "cta">>

SectionCount == Len(SectionIds)

SectionNames == {SectionIds[i] : i \in 1..SectionCount}

\* const particleStates = { hero: { tightness: 2.5, radius: 3.5, ... }, ... }
particleStates ==
  [ hero       |-> [tightness |-> 250, radius |-> 350, speed |-> 50, opacity |-> 90],
    problem    |-> [tightness |-> 350, radius |-> 300, speed |-> 35, opacity |-> 75],
    team       |-> [tightness |-> 400, radius |-> 280, speed |-> 40, opacity |-> 95],
    philosophy |-> [tightness |-> 200, radius |-> 450, speed |-> 60, opacity |-> 85],
    services   |-> [tightness |-> 200, radius |-> 500, speed |-> 80, opacity |-> 100],
    process    |-> [tightness |-> 300, radius |-> 380, speed |-> 50, opacity |-> 90],
    quote      |-> [tightness |-> 150, radius |-> 400, speed |-> 30, opacity |-> 70],
    cta        |-> [tightness |-> 250, radius |-> 350, speed |-> 50, opacity |-> 90] ]

\* const craneStates = { hero: { visible: true, animationSpeed: 0.6, ... }, ... }
craneStates ==
  [ hero       |-> [animationSpeed |-> 60, scale |-> 4080, opacity |-> 85,
                    dispersion |-> 5, noiseIntensity |-> 2,
                    position |-> <<0, 20, -200>>, rotation |-> <<30, -50, 20>>],
    problem    |-> [animationSpeed |-> 70, scale |-> 2940, opacity |-> 55,
                    dispersion |-> 40, noiseIntensity |-> 10,
                    position |-> <<-50, 0, -250>>, rotation |-> <<20, -30, 10>>],
    team       |-> [animationSpeed |-> 100, scale |-> 3260, opacity |-> 70,
                    dispersion |-> 30, noiseIntensity |-> 8,
                    position |-> <<0, 20, -200>>, rotation |-> <<25, -40, 15>>],
    philosophy |-> [animationSpeed |-> 50, scale |-> 3590, opacity |-> 60,
                    dispersion |-> 55, noiseIntensity |-> 18,
                    position |-> <<30, 50, -250>>, rotation |-> <<35, -60, 25>>],
    services   |-> [animationSpeed |-> 60, scale |-> 2940, opacity |-> 50,
                    dispersion |-> 45, noiseIntensity |-> 14,
                    position |-> <<0, 20, -250>>, rotation |-> <<20, -40, 10>>],
    process    |-> [animationSpeed |-> 80, scale |-> 2940, opacity |-> 60,
                    dispersion |-> 35, noiseIntensity |-> 10,
                    position |-> <<50, 30, -200>>, rotation |-> <<25, -35, 15>>],
    quote      |-> [animationSpeed |-> 40, scale |-> 3260, opacity |-> 50,
                    dispersion |-> 65, noiseIntensity |-> 22,
                    position |-> <<0, 60, -300>>, rotation |-> <<30, -50, 20>>],
    cta        |-> [animationSpeed |-> 80, scale |-> 4570, opacity |-> 90,
                    dispersion |-> 5, noiseIntensity |-> 2,
                    position |-> <<0, 10, -150>>, rotation |-> <<30, -50, 20>>] ]

\* Property names every object literal inherits from Object.prototype: a
\* lookup table[name] with one of these names yields a truthy value that is
\* no descriptor, so each field read from it is undefined.
ObjectPrototypeKeys == {"constructor"}

\* The names transitionToState is called with in the store's specification:
\* two sections, a name found nowhere, and an inherited name.
RequestNames == {"team", "quote", "nonexistent"} \cup ObjectPrototypeKeys

\* particleStates[stateName]: [truthy, the fields read from the value].
LookupParticleState(stateName) ==
  IF stateName \in DOMAIN particleStates
    THEN [truthy |-> TRUE, state |-> particleStates[stateName]]
    ELSE [truthy |-> stateName \in ObjectPrototypeKeys,
          state |-> [tightness |-> Undefined, radius |-> Undefined,
                     speed |-> Undefined, opacity |-> Undefined]]

\* craneStates[stateName]: position and rotation of a value that has none
\* are undefined (falsy), here the empty tuple.
LookupCraneState(stateName) ==
  IF stateName \in DOMAIN craneStates
    THEN [truthy |-> TRUE, state |-> craneStates[stateName]]
    ELSE [truthy |-> stateName \in ObjectPrototypeKeys,
          state |-> [animationSpeed |-> Undefined, scale |-> Undefined,
                     opacity |-> Undefined, dispersion |-> Undefined,
                     noiseIntensity |-> Undefined,
                     position |-> <<>>, rotation |-> <<>>]]


(***************************************************************************)
(* Durations, in fiftieths of a second.                                    *)
(***************************************************************************)
\* duration: 2 of every state-transition tween.
TransitionDuration == 100

\* scrub: 1 of the helix timeline's ScrollTrigger.
ScrubDuration == 50

\* animateIn: the container's duration: 0.4.
FadeInDuration == 20

\* animateOut: duration: 0.3.
FadeOutDuration == 15

\* animateIn: each element's duration: 0.8, delay: 0.1 + i * 0.08.
ElementDuration == 40
ElementDelay == 5
ElementStagger == 4

\* duration: 3 of the crane's reveal tween.
RevealDuration == 150

\* const strandCount = 5, const particlesPerStrand = 3000
strandCount == 5
particlesPerStrand == 3000

\* const KEYFRAME_COUNT = 30, const MAX_PARTICLES = 45630
KEYFRAME_COUNT == 30
MAX_PARTICLES == 45630

(***************************************************************************)
(* State.                                                                  *)
(***************************************************************************)
VARIABLES
  helix,           \* the helix's uniforms: helix[name].value is
                   \*   uniforms[name].value
  crane,           \* the crane's uniforms; a vector uniform's entry is its
                   \*   value, the Vector3 [x, y, z]
  animationState,  \* the crane's animationState.current
  craneMounted,    \* Scene's craneRef.current is set
  timeline,        \* gsap's global timeline: per animated object the live
                   \*   tweens on it, oldest first
  scrollY,         \* the window's scroll position
  stProgress,      \* progress of the helix timeline's ScrollTrigger
  tlProgress,      \* totalProgress of the helix timeline tl
  scrubTween,      \* the ScrollTrigger's scrub tween on tl's totalProgress
  trigger,         \* per section, the progress of its ScrollTrigger
  isActive,        \* per section, the Section's isActive state
  content,         \* per section, the style of its contentRef element
  element,         \* per section, the styles of its text elements
  updatedThisFrame,\* ScrollTrigger.update has run since the latest tick
  lastRequest,     \* history: the name of the latest transitionToState call
  requests,        \* history: the number of section-change notifications
  target,          \* history: per visual, the name of the latest call
                   \*   that passed its lookup guard
  sinceRequest,    \* history: time since the latest call that started tweens
  supersededWrite, \* history: in the latest tick a tween moved a property
                   \*   toward its end value although a later-created live
                   \*   tween animates that property to another end value
  calls,           \* history: the identifiers the sections passed to onEnter
                   \*   in this frame's ScrollTrigger update, in order
  updates,         \* history: the number of ScrollTrigger updates
  crossed,         \* history: <<p, s>> when the latest ScrollTrigger update,
                   \*   not the first after load, found section p active
                   \*   and left another section s active; <<>> otherwise
  downRun,         \* history: the latest scroll movements form a strictly
                   \*   downward run; fromTop: it began at the top,
                   \*   fromRest: and with uScroll resting at 0
  gltf,            \* the model useLoader returns to CraneParticles
  played,          \* history: wall, the wall-clock time the crane's frames
                   \*   have covered, in sixtieths of a second, and advances,
                   \*   the keyframe advances in that time
  builds,          \* history: the runs of the helix's and of the crane's
                   \*   build useMemo, and the re-renders counted
  particleData,    \* CraneParticles' particleData, Null before the model
                   \*   is processed and when it cannot be
  keyframePositions, \* CraneParticles' keyframePositions: the sequence of
                   \*   the Float32Arrays sampled, each named by its number
  arrays,          \* the contents of the Float32Arrays, by number
  aPosition0,      \* the geometry's aPosition0 and aPosition1 attributes,
  aPosition1,      \*   array: the number of the attribute's array; Null
                   \*   when nothing renders
  meshRef,         \* CraneParticles' meshRef.current is set
  accumulated,     \* history: frameAccumulator as the latest frame's
                   \*   threshold test found it
  threw,           \* history: an exception was raised
  observers,       \* the live ScrollTriggers, each named by the component
                   \*   that created it: "helix", "camera", a section's id
  unmounted,       \* the components torn down
  camera,          \* CameraController's scrubbed tween: stProgress, its
                   \*   trigger's progress; scrubTween; progress, the
                   \*   tween's totalProgress, which places camera.position
  lateWrite,       \* history: in the latest tick a tween wrote to an object
                   \*   of a component torn down
  writers,         \* history: frame, the uniforms a useFrame callback has
                   \*   written, and tween, those a tween has, each as
                   \*   <<visual, uniform>>
  handles,         \* the refs holding a child's handle: experienceRef (App),
                   \*   sceneRef (Experience), particlesRef (Scene); Scene's
                   \*   craneRef is craneMounted
  received,        \* history: the transitionToState calls since the latest
                   \*   tick, each <<component called, name passed>>, and
                   \*   <<"TypeError", name>> for a call on an empty ref
  particles,       \* the helix's particles useMemo
  sample,          \* the crane's sub-sampling loop: the mesh's vertexCount,
                   \*   particleCount, stride, the loop's i and the srcIdx of
                   \*   the particle written last
  gate             \* the enter gate: entered and playing (App's and
                   \*   useAudio's state as last rendered), next (the state
                   \*   the setters have queued), paused (the audio
                   \*   element's), the enter screen's opacity, fades (the
                   \*   tweens its clicks started) and the clicks' count: i, the loop's index;
                   \*   written, strand, progress, random: whether and
                   \*   what the latest iteration wrote at index i - 1;
                   \*   perStrand: the particles each strand has so far

storeVars == <<helix, crane, animationState, timeline>>
scrollVars == <<scrollY, stProgress, tlProgress, scrubTween>>
sectionVars == <<trigger, isActive, content, element, updatedThisFrame>>
requestVars == <<lastRequest, requests, target, sinceRequest>>
historyVars == <<requestVars, supersededWrite, calls, updates, crossed, downRun>>
playerVars == <<gltf, builds, played, particleData, keyframePositions, arrays, aPosition0,
                aPosition1, meshRef, accumulated, threw>>
lifeVars == <<observers, unmounted, camera, lateWrite>>
bridgeVars == <<handles, received>>
componentVars == <<playerVars, lifeVars, writers, bridgeVars, particles, sample, gate>>
vars == <<storeVars, craneMounted, scrollVars, sectionVars, historyVars,
          componentVars>>

Min(a, b) == IF a < b THEN a ELSE b
Abs(n) == IF n < 0 THEN -n ELSE n

(***************************************************************************)
(* gsap: easing and tween rendering.                                       *)
(***************************************************************************)
Cube(n) == n * n * n

RECURSIVE Pow2(_)
Pow2(n) == IF n = 0 THEN 1 ELSE 2 * Pow2(n - 1)

\* The eased ratio at time p of a tween of duration d, as a fraction
\* num / den.  "expo" is 1 - 2^(-10 p/d), exactly 1 at the end, with the
\* exponent truncated to a whole number.
EaseRatio(ease, p, d) ==
  CASE ease = "none"       -> [num |-> p, den |-> d]
    [] ease = "power2.out" -> [num |-> Cube(d) - Cube(d - p), den |-> Cube(d)]
    [] ease = "power2.in"  -> [num |-> Cube(p), den |-> Cube(d)]
    [] ease = "power2.inOut" ->
         IF 2 * p < d THEN [num |-> 4 * Cube(p), den |-> Cube(d)]
         ELSE [num |-> 2 * Cube(d) - Cube(2 * d - 2 * p), den |-> 2 * Cube(d)]
    [] ease = "expo"       -> [num |-> IF p >= d THEN 1024
                                       ELSE 1024 - Pow2(10 - ((10 * p) \div d)),
                               den |-> 1024]

\* The value a property tween writes: from + (to - from) * ratio.  A start
\* or end that is no number gives no number until the tween's last render,
\* which writes the end value itself.
Interpolate(from, to, r) ==
  IF to = Undefined THEN Undefined
  ELSE IF r.num = r.den THEN to
  ELSE IF from = Undefined THEN Undefined
  ELSE from + ((to - from) * r.num) \div r.den

\* The animated objects W: W.helix and W.crane map a uniform's name, and
\* W.content a section's identifier, to an object, a record of numeric
\* properties; W.element maps a section's identifier to its text elements.
\* A tween's obj is the path to its object: <<"helix", name>>,
\* <<"content", id>> or <<"element", id, n>>.
GetObject(W, obj) ==
  IF Len(obj) = 2 THEN W[obj[1]][obj[2]] ELSE W[obj[1]][obj[2]][obj[3]]

\* gsap.to(obj, {...to, duration, ease}): the start values are read at the
\* tween's first render, not here.
GsapTo(obj, to, duration, ease) ==
  [obj |-> obj, to |-> to, dur |-> duration, delay |-> 0, ease |-> ease,
   t |-> 0, init |-> FALSE, from |-> to]

\* gsap.fromTo(obj, from, {...to, duration, delay, ease}): the start values
\* are given (and written at once, see AnimateIn).
GsapFromTo(obj, from, to, duration, delay, ease) ==
  [obj |-> obj, to |-> to, dur |-> duration, delay |-> delay, ease |-> ease,
   t |-> 0, init |-> TRUE, from |-> from]

\* One render of a tween, dt after its previous one, on an object whose
\* properties are old: the properties after it, the tween after it, and
\* whether the tween has finished.  A tween renders once its delay has
\* passed.
RenderTween(tw, old, dt) ==
  LET t2   == Min(tw.t + dt, tw.delay + tw.dur)
      from == IF tw.init THEN tw.from ELSE [p \in DOMAIN tw.to |-> old[p]]
      r    == EaseRatio(tw.ease, t2 - tw.delay, tw.dur)
  IN  IF t2 < tw.delay
        THEN [props |-> old, tw |-> [tw EXCEPT !.t = t2], done |-> FALSE]
        ELSE [props |-> [p \in DOMAIN old |->
                           IF p \in DOMAIN tw.to
                             THEN Interpolate(from[p], tw.to[p], r)
                             ELSE old[p]],
              tw    |-> [tw EXCEPT !.t = t2, !.init = TRUE, !.from = from],
              done  |-> t2 >= tw.delay + tw.dur]

\* The timeline holds the live tweens by animated object, per object in
\* the order they were created: tweens on different objects do not meet.
\* Tween i of an object's track animates a property that a later tween
\* animates.
Superseded(track, i) ==
  \E j \in (i + 1)..Len(track) : DOMAIN track[j].to \cap DOMAIN track[i].to # {}

\* Tween i animates a property that a later tween animates to another end.
SupersededByOther(track, i) ==
  \E j \in (i + 1)..Len(track) :
     \E p \in DOMAIN track[j].to \cap DOMAIN track[i].to : track[j].to[p] # track[i].to[p]

\* A render of tween tw took a property from before nearer to tw's end.
MovedTowardEnd(tw, before, after) ==
  \E p \in DOMAIN tw.to :
     /\ Undefined \notin {before[p], after[p], tw.to[p]}
     /\ Abs(after[p] - tw.to[p]) < Abs(before[p] - tw.to[p])

\* The global timeline renders its tweens in the order they were created:
\* the renders of tweens i.. of an object's track, on the properties old.
\* props: the properties after them; rest: the tweens still live, a
\* finished tween leaves the timeline; stale: a superseded tween moved its
\* property toward its own end.
RECURSIVE RenderTrack(_, _, _, _)
RenderTrack(track, i, old, dt) ==
  IF i > Len(track) THEN [props |-> old, rest |-> <<>>, stale |-> FALSE]
  ELSE LET r == RenderTween(track[i], old, dt)
           next == RenderTrack(track, i + 1, r.props, dt)
       IN  [props |-> next.props,
            rest  |-> IF r.done THEN next.rest ELSE <<r.tw>> \o next.rest,
            stale |-> \/ next.stale
                      \/ /\ SupersededByOther(track, i)
                         /\ MovedTowardEnd(track[i], old, r.props)]

\* One tick of the global timeline tl on the objects W.
RenderTimeline(tl, W, dt) ==
  LET R(obj) == RenderTrack(tl[obj], 1, GetObject(W, obj), dt)
  IN  [W |-> [helix   |-> [u \in DOMAIN W.helix |-> R(<<"helix", u>>).props],
              crane   |-> [u \in DOMAIN W.crane |-> R(<<"crane", u>>).props],
              content |-> [id \in DOMAIN W.content |-> R(<<"content", id>>).props],
              element |-> [id \in DOMAIN W.element |->
                             [n \in DOMAIN W.element[id] |->
                                R(<<"element", id, n>>).props]]],
       rest |-> [obj \in DOMAIN tl |-> R(obj).rest],
       stale |-> \E obj \in DOMAIN tl : R(obj).stale]

\* The tweens of the sequence created join the timeline, in order.
AddTweens(tl, created) ==
  [obj \in DOMAIN tl |-> tl[obj] \o SelectSeq(created, LAMBDA tw : tw.obj = obj)]

(***************************************************************************)
(* The two visuals: uniforms and transitionToState.                        *)
(***************************************************************************)
\* EtherealParticles: const uniforms = useRef({...}).current
\* new THREE.Vector2(x, y).
Vector2(x, y) == [x |-> x, y |-> y]

\* The viewport r3f reports, in world units at the camera's target.
viewport == [width |-> 16, height |-> 9]

\* Vector2.lerp(v, 0.1), per component, in hundredths.
Lerp(a, v) == Vector2(a.x + (v.x - a.x) \div 10, a.y + (v.y - a.y) \div 10)

\* The uniforms w assigns written into U, and the record of who wrote.
WriteUniforms(U, w) ==
  [u \in DOMAIN U |-> IF u \in DOMAIN w THEN [value |-> w[u]] ELSE U[u]]

Written(visual, w) == {<<visual, u>> : u \in DOMAIN w}

InitialHelixUniforms ==
  [ uTime            |-> [value |-> 0],
    uScroll          |-> [value |-> 0],
    uMouse           |-> [value |-> Vector2(0, 0)],
    uViewport        |-> [value |-> Vector2(viewport.width, viewport.height)],
    uRotation        |-> [value |-> 0],
    uHelixTightness  |-> [value |-> particleStates.hero.tightness],
    uHelixRadius     |-> [value |-> particleStates.hero.radius],
    uFlowSpeed       |-> [value |-> particleStates.hero.speed],
    uParticleOpacity |-> [value |-> particleStates.hero.opacity] ]

Vector3(v) == [x |-> v[1], y |-> v[2], z |-> v[3]]

\* CraneParticles: const uniforms = useMemo(() => ({...}), [])
InitialCraneUniforms ==
  [ uTime           |-> [value |-> 0],
    uMouse          |-> [value |-> Vector2(0, 0)],
    uViewport       |-> [value |-> Vector2(viewport.width, viewport.height)],
    uScale          |-> [value |-> craneStates.hero.scale],
    uOpacity        |-> [value |-> craneStates.hero.opacity],
    uDispersion     |-> [value |-> craneStates.hero.dispersion],
    uNoiseIntensity |-> [value |-> craneStates.hero.noiseIntensity],
    uRevealProgress |-> [value |-> 0],
    uAnimationProgress |-> [value |-> 0],
    uTargetPosition |-> Vector3(craneStates.hero.position),
    uRotation       |-> Vector3(craneStates.hero.rotation) ]

\* CraneParticles: const animationState = useRef({...})
InitialAnimationState ==
  [currentKeyframe |-> 0,
   animationSpeed |-> craneStates.hero.animationSpeed,
   frameAccumulator |-> 0]

StateTween(obj, to) == GsapTo(obj, to, TransitionDuration, "power2.out")

\* transitionToState with the flow speed tweened on uScroll.
HelixTransitionTweensOnScroll(stateName) ==
  LET l == LookupParticleState(stateName)
      state == l.state
  IN  IF ~l.truthy THEN <<>>
      ELSE << StateTween(<<"helix", "uHelixTightness">>, [value |-> state.tightness]),
              StateTween(<<"helix", "uHelixRadius">>, [value |-> state.radius]),
              StateTween(<<"helix", "uScroll">>, [value |-> state.speed]),
              StateTween(<<"helix", "uParticleOpacity">>, [value |-> state.opacity]) >>

\* transitionToState with the radius tween given the tightness target.
HelixTransitionTweensSwapped(stateName) ==
  LET l == LookupParticleState(stateName)
      state == l.state
  IN  IF ~l.truthy THEN <<>>
      ELSE << StateTween(<<"helix", "uHelixTightness">>, [value |-> state.tightness]),
              StateTween(<<"helix", "uHelixRadius">>, [value |-> state.tightness]),
              StateTween(<<"helix", "uFlowSpeed">>, [value |-> state.speed]),
              StateTween(<<"helix", "uParticleOpacity">>, [value |-> state.opacity]) >>

\* EtherealParticles.transitionToState(stateName): the tweens it creates.
HelixTransitionTweens(stateName) ==
  LET l == LookupParticleState(stateName)
      state == l.state
  IN  IF ~l.truthy THEN <<>>
      ELSE << StateTween(<<"helix", "uHelixTightness">>, [value |-> state.tightness]),
              StateTween(<<"helix", "uHelixRadius">>, [value |-> state.radius]),
              StateTween(<<"helix", "uFlowSpeed">>, [value |-> state.speed]),
              StateTween(<<"helix", "uParticleOpacity">>, [value |-> state.opacity]) >>

\* The crane's tweens with the reveal restarted from 0 by every request.
CraneTransitionTweensReveal(stateName) ==
  LET l == LookupCraneState(stateName)
  IN  IF ~l.truthy THEN <<>>
      ELSE << StateTween(<<"crane", "uScale">>, [value |-> l.state.scale]),
              StateTween(<<"crane", "uRevealProgress">>, [value |-> 0]) >>

\* CraneParticles.transitionToState(stateName): the tweens it creates.
CraneTransitionTweens(stateName) ==
  LET l == LookupCraneState(stateName)
      state == l.state
  IN  IF ~l.truthy THEN <<>>
      ELSE << StateTween(<<"crane", "uScale">>, [value |-> state.scale]),
              StateTween(<<"crane", "uOpacity">>, [value |-> state.opacity]),
              StateTween(<<"crane", "uDispersion">>, [value |-> state.dispersion]),
              StateTween(<<"crane", "uNoiseIntensity">>, [value |-> state.noiseIntensity]) >>
           \o (IF state.position # <<>>
                 THEN <<StateTween(<<"crane", "uTargetPosition">>, Vector3(state.position))>>
                 ELSE <<>>)
           \o (IF state.rotation # <<>>
                 THEN <<StateTween(<<"crane", "uRotation">>, Vector3(state.rotation))>>
                 ELSE <<>>)

\* CraneParticles.transitionToState(stateName): animationState.current
\* .animationSpeed = state.animationSpeed, at once.
CraneAnimationSpeed(stateName, current) ==
  LET l == LookupCraneState(stateName)
  IN  IF l.truthy THEN l.state.animationSpeed ELSE current

\* The part of the state a transitionToState call reads and writes;
\* created: the tweens the step has created so far.
StoreOf(created, anim, last, n, tg, since, rec) ==
  [created |-> created, animationState |-> anim, lastRequest |-> last,
   requests |-> n, target |-> tg, sinceRequest |-> since, received |-> rec]

\* Scene's handle (Experience forwards to it, App.handleSectionChange calls
\* Experience's): particlesRef first, then craneRef when it is set.
Transition(S, stateName, mounted) ==
  LET particlesRef == handles.particlesRef
      helixTweens == IF particlesRef THEN HelixTransitionTweens(stateName) ELSE <<>>
      craneTweens == IF mounted THEN CraneTransitionTweens(stateName) ELSE <<>>
      helixHit == particlesRef /\ LookupParticleState(stateName).truthy
      craneHit == mounted /\ LookupCraneState(stateName).truthy
  IN  StoreOf(S.created \o helixTweens \o craneTweens,
              IF mounted
                THEN [S.animationState EXCEPT !.animationSpeed =
                        CraneAnimationSpeed(stateName, S.animationState.animationSpeed)]
                ELSE S.animationState,
              stateName,
              S.requests,
              [helix |-> IF helixHit THEN stateName ELSE S.target.helix,
               crane |-> IF craneHit THEN stateName ELSE S.target.crane],
              IF helixHit \/ craneHit THEN 0 ELSE S.sinceRequest,
              S.received \o <<<<"Scene", stateName>>>>
                \o (IF particlesRef THEN <<<<"EtherealParticles", stateName>>>>
                    ELSE <<>>)
                \o (IF mounted THEN <<<<"CraneParticles", stateName>>>> ELSE <<>>))

\* A call of transitionToState on the handle a ref holds: a TypeError when
\* the ref is empty.
CallHandle(S, available, stateName, T) ==
  IF available THEN T
  ELSE [S EXCEPT !.received = Append(@, <<"TypeError", stateName>>)]

\* Experience's guard without its test of sceneRef.current.
SceneAvailableAlways == TRUE

\* if (sceneRef.current), in Experience's handle.
SceneAvailable == handles.sceneRef

\* Experience's handle: forwards to Scene's when sceneRef holds it.
ExperienceTransitionToState(S, stateName) ==
  LET E == [S EXCEPT !.received = Append(@, <<"Experience", stateName>>)]
  IN  IF SceneAvailable
        THEN CallHandle(E, handles.sceneRef, stateName,
                        Transition(E, stateName, craneMounted))
        ELSE E

\* App.handleSectionChange: forwards to Experience's handle when
\* experienceRef holds it.
HandleSectionChange(S, sectionId) ==
  LET A == [S EXCEPT !.received = Append(@, <<"App", sectionId>>),
                     !.requests = Min(@ + 1, MaxRequests)]
  IN  IF handles.experienceRef THEN ExperienceTransitionToState(A, sectionId)
      ELSE A

CurrentStore ==
  StoreOf(<<>>, animationState, lastRequest, requests, target, sinceRequest,
          received)

SetStore(S) ==
  /\ timeline' = AddTweens(timeline, S.created)
  /\ animationState' = S.animationState
  /\ lastRequest' = S.lastRequest
  /\ requests' = S.requests
  /\ target' = S.target
  /\ sinceRequest' = S.sinceRequest
  /\ received' = S.received

\* experienceRef.current.transitionToState(stateName)
TransitionToState(stateName) ==
  /\ requests < MaxRequests
  /\ SetStore(HandleSectionChange(CurrentStore, stateName))
  /\ UNCHANGED <<helix, crane, craneMounted, scrollVars, sectionVars,
                 supersededWrite, calls, updates, crossed, downRun, playerVars,
                 lifeVars, writers, handles, particles, sample, gate>>

\* The uniforms the helix's useFrame assigns, that and uScroll.
HelixFrameWritesScroll(state) ==
  [uTime |-> state.elapsed,
   uMouse |-> Lerp(helix.uMouse.value, state.pointer),
   uViewport |-> Vector2(state.viewport.width, state.viewport.height),
   uRotation |-> state.elapsed \div 25,
   uScroll |-> 0]

\* The uniforms the helix's useFrame assigns: the rotation is
\* clock.getElapsedTime() * 0.02, the time in fiftieths of a second.
HelixFrameWrites(state) ==
  [uTime |-> state.elapsed,
   uMouse |-> Lerp(helix.uMouse.value, state.pointer),
   uViewport |-> Vector2(state.viewport.width, state.viewport.height),
   uRotation |-> state.elapsed \div 25]

\* The helix's useFrame callback.
HelixFrame(state) ==
  /\ "helix" \notin unmounted
  /\ helix' = WriteUniforms(helix, HelixFrameWrites(state))
  /\ writers' = [writers EXCEPT !.frame =
                   @ \cup Written("helix", HelixFrameWrites(state))]
  /\ UNCHANGED <<crane, animationState, timeline, craneMounted, scrollVars,
                 sectionVars, historyVars, playerVars, lifeVars, bridgeVars,
                 particles, sample, gate>>

(***************************************************************************)
(* The helix's geometry.                                                   *)
(***************************************************************************)
\* const count = strandCount * particlesPerStrand
ParticleTotal == strandCount * particlesPerStrand

\* Values of Math.random(), in hundredths.
RandomValues == {0, 99}

\* The loop before its first iteration.
ParticlesStart ==
  [i |-> 0, written |-> FALSE, strand |-> 0,
   progress |-> [num |-> 0, den |-> 1], random |-> 0,
   perStrand |-> [strandId \in 0..(strandCount - 1) |-> 0]]

\* The loop's body dividing by the number of strands.
ParticleIterationByStrands(P, random) ==
  LET strandId == P.i \div strandCount
      particleId == P.i % strandCount
  IN  [i |-> P.i + 1, written |-> TRUE, strand |-> strandId,
       progress |-> [num |-> particleId, den |-> particlesPerStrand],
       random |-> random,
       perStrand |-> IF strandId \in DOMAIN P.perStrand
                       THEN [P.perStrand EXCEPT ![strandId] = @ + 1]
                       ELSE P.perStrand]

\* One iteration of for (let i = 0; i < count; i++): strands[i] =
\* Math.floor(i / particlesPerStrand), progress[i] = (i %
\* particlesPerStrand) / particlesPerStrand, randoms[i] = Math.random().
ParticleIteration(P, random) ==
  LET strandId == P.i \div particlesPerStrand
      particleId == P.i % particlesPerStrand
  IN  [i |-> P.i + 1, written |-> TRUE, strand |-> strandId,
       progress |-> [num |-> particleId, den |-> particlesPerStrand],
       random |-> random,
       perStrand |-> IF strandId \in DOMAIN P.perStrand
                       THEN [P.perStrand EXCEPT ![strandId] = @ + 1]
                       ELSE P.perStrand]

\* The loop has run to its end.
ParticlesBuilt ==
  [i |-> ParticleTotal, written |-> TRUE, strand |-> strandCount - 1,
   progress |-> [num |-> particlesPerStrand - 1, den |-> particlesPerStrand],
   random |-> 0,
   perStrand |-> [strandId \in 0..(strandCount - 1) |-> particlesPerStrand]]

ParticleStep ==
  /\ particles.i < ParticleTotal
  /\ \E random \in RandomValues : particles' = ParticleIteration(particles, random)
  /\ UNCHANGED <<storeVars, craneMounted, scrollVars, sectionVars, historyVars,
                 playerVars, lifeVars, writers, bridgeVars, sample, gate>>

(***************************************************************************)
(* The crane's particle data and keyframes.                                *)
(***************************************************************************)
\* JavaScript's null (and the undefined of a missing object).
Null == [null |-> TRUE]

\* A model as CraneParticles reads it: whether the scene has a child with
\* isSkinnedMesh, whether that child has a skeleton, whether animations[0]
\* exists, the clip's duration in seconds and the mesh's vertex count.
Gltf(mesh, skeleton, clip, duration, vertexCount) ==
  [isSkinnedMesh |-> mesh, skeleton |-> skeleton, clip |-> clip,
   duration |-> duration, vertexCount |-> vertexCount]

\* The model the page ships.
CraneModel == Gltf(TRUE, TRUE, TRUE, 1, MinVertices)

\* const time = (k / (KEYFRAME_COUNT - 1)) * duration, as a fraction.
SampleTime(k, duration) == [num |-> k * duration, den |-> KEYFRAME_COUNT - 1]

\* const particleCount = Math.min(vertexCount, MAX_PARTICLES)
ParticleCount(vertexCount) == Min(vertexCount, MAX_PARTICLES)

\* The stride rounded down.
StrideFloor(vertexCount, particleCount) == vertexCount \div particleCount

\* const stride = Math.ceil(vertexCount / particleCount)
Stride(vertexCount, particleCount) ==
  (vertexCount + particleCount - 1) \div particleCount

\* The positions array of keyframe k: particleCount vertices of the mesh as
\* sampleSkinnedMesh poses it at the keyframe's clip time.
Sampled(k, g) ==
  [time |-> SampleTime(k, g.duration), count |-> ParticleCount(g.vertexCount)]

NoParticles ==
  [particleData |-> Null, keyframePositions |-> <<>>, arrays |-> <<>>]

\* The useMemo sampling one keyframe fewer.
BuildParticlesShort(g) ==
  IF ~g.isSkinnedMesh \/ ~g.skeleton \/ ~g.clip THEN NoParticles
  ELSE [particleData |-> [count |-> ParticleCount(g.vertexCount),
                          stride |-> Stride(g.vertexCount, ParticleCount(g.vertexCount))],
        keyframePositions |-> [k \in 1..(KEYFRAME_COUNT - 1) |-> k - 1],
        arrays |-> [a \in 0..(KEYFRAME_COUNT - 2) |-> Sampled(a, g)]]

\* const { particleData, keyframePositions } = useMemo(...): the arrays
\* the loop allocates are numbered by keyframe, keyframePositions[k] being
\* array k.
BuildParticles(g) ==
  IF ~g.isSkinnedMesh \/ ~g.skeleton THEN NoParticles
  ELSE IF ~g.clip THEN NoParticles
  ELSE LET particleCount == ParticleCount(g.vertexCount)
           stride == Stride(g.vertexCount, particleCount)
       IN  [particleData |-> [count |-> particleCount, stride |-> stride],
            keyframePositions |-> [k \in 1..KEYFRAME_COUNT |-> k - 1],
            arrays |-> [a \in 0..(KEYFRAME_COUNT - 1) |-> Sampled(a, g)]]

\* The sub-sampling loop before its first iteration.
SampleStart(vertexCount) ==
  [vertexCount |-> vertexCount,
   particleCount |-> ParticleCount(vertexCount),
   stride |-> Stride(vertexCount, ParticleCount(vertexCount)),
   i |-> 0, srcIdx |-> 0]

\* One iteration of for (let i = 0; i < particleCount; i++): srcIdx =
\* Math.min(i * stride, vertexCount - 1).
SampleIteration(P) ==
  [P EXCEPT !.i = P.i + 1,
            !.srcIdx = Min(P.i * P.stride, P.vertexCount - 1)]

SampleStep ==
  /\ sample.i < sample.particleCount
  /\ sample' = SampleIteration(sample)
  /\ UNCHANGED <<storeVars, craneMounted, scrollVars, sectionVars, historyVars,
                 playerVars, lifeVars, writers, bridgeVars, particles, gate>>

\* if (!particleData || !keyframePositions.length) return null
Renders(b) == b.particleData # Null /\ b.keyframePositions # <<>>

\* The bufferAttribute elements take the arrays of keyframes 0 and 1
\* themselves: array={initialPositions0}, array={initialPositions1}.
InitialPositions0(b) ==
  IF Renders(b) THEN [array |-> b.keyframePositions[1]] ELSE Null
InitialPositions1(b) ==
  IF ~Renders(b) THEN Null
  ELSE IF Len(b.keyframePositions) >= 2 THEN [array |-> b.keyframePositions[2]]
  ELSE [array |-> b.keyframePositions[1]]

\* The reveal effect: if (!particleData) return; gsap.to(uRevealProgress).
RevealTweens(b) ==
  IF b.particleData = Null THEN <<>>
  ELSE <<GsapTo(<<"crane", "uRevealProgress">>, [value |-> One],
                RevealDuration, "power2.out")>>

\* The crane's model has loaded: CraneParticles mounts inside Suspense,
\* processes the model, renders, its handle is set and its reveal effect
\* runs.
CraneMount ==
  /\ ~craneMounted
  /\ handles.sceneRef
  /\ "crane" \notin unmounted
  /\ LET b == BuildParticles(gltf)
     IN  /\ particleData' = b.particleData
         /\ keyframePositions' = b.keyframePositions
         /\ arrays' = b.arrays
         /\ craneMounted' = TRUE
         /\ meshRef' = Renders(b)
         /\ aPosition0' = InitialPositions0(b)
         /\ aPosition1' = InitialPositions1(b)
         /\ timeline' = AddTweens(timeline, RevealTweens(b))
  /\ builds' = [builds EXCEPT !.crane = @ + 1]
  /\ UNCHANGED <<helix, crane, animationState, scrollVars, sectionVars,
                 historyVars, gltf, played, accumulated, threw, lifeVars, writers,
                 bridgeVars, particles, sample, gate>>

\* frameAccumulator's advance in one frame, clock.getDelta() *
\* animationSpeed * 30, delta in sixtieths of a second: no number when the
\* speed is none.
FrameAdvance(delta, animationSpeed) ==
  IF animationSpeed = Undefined THEN Undefined
  ELSE (delta * animationSpeed * 30) \div 60

\* A step per whole unit accumulated, the fraction carried over.
AdvanceKeyframeCarry(anim, sum) ==
  IF sum # Undefined /\ sum >= One
    THEN [frameAccumulator |-> sum % One,
          currentKeyframe |-> (anim.currentKeyframe + sum \div One) % KEYFRAME_COUNT]
    ELSE [frameAccumulator |-> sum, currentKeyframe |-> anim.currentKeyframe]

\* if (anim.frameAccumulator >= 1) { anim.frameAccumulator = 0;
\* anim.currentKeyframe = (anim.currentKeyframe + 1) % KEYFRAME_COUNT; ... }
AdvanceKeyframe(anim, sum) ==
  IF sum # Undefined /\ sum >= One
    THEN [frameAccumulator |-> 0,
          currentKeyframe |-> (anim.currentKeyframe + 1) % KEYFRAME_COUNT]
    ELSE [frameAccumulator |-> sum, currentKeyframe |-> anim.currentKeyframe]

\* updateKeyframeAttributes(geometry, currentFrame, nextFrame):
\* attr0.array.set(pos0), then attr1.array.set(pos1), the attributes'
\* arrays being the ones they were given at render.
UpdateKeyframeAttributes(arr, currentFrame, nextFrame) ==
  IF keyframePositions = <<>> THEN arr
  ELSE LET pos0 == keyframePositions[currentFrame + 1]
           pos1 == keyframePositions[nextFrame + 1]
           set0 == [arr EXCEPT ![aPosition0.array] = arr[pos0]]
       IN  [set0 EXCEPT ![aPosition1.array] = set0[pos1]]

\* The per-frame update that does not test what it reads.
FrameGuardNone == TRUE

\* if (!meshRef.current || !particleData) return
FrameGuard == meshRef /\ particleData # Null

\* CraneParticles' useFrame callback, delta after the clock was last read;
\* reading meshRef.current.material of no mesh raises a TypeError.
\* The uniforms the crane's useFrame assigns.
CraneFrameWrites(state, progress) ==
  [uTime |-> state.elapsed,
   uMouse |-> Lerp(crane.uMouse.value, state.pointer),
   uViewport |-> Vector2(state.viewport.width, state.viewport.height),
   uAnimationProgress |-> progress]

CraneFrame(delta, state) ==
  IF ~craneMounted \/ ~FrameGuard THEN UNCHANGED vars
  ELSE IF ~meshRef \/ particleData = Null
    THEN /\ threw' = TRUE
         /\ UNCHANGED <<storeVars, craneMounted, scrollVars, sectionVars,
                        historyVars, gltf, builds, played, particleData, keyframePositions,
                        arrays, aPosition0, aPosition1, meshRef, accumulated,
                        lifeVars, writers, bridgeVars, particles, sample, gate>>
  ELSE LET anim == animationState
           advance == FrameAdvance(delta, anim.animationSpeed)
           sum == IF Undefined \in {advance, anim.frameAccumulator}
                    THEN Undefined
                    ELSE anim.frameAccumulator + advance
           step == sum # Undefined /\ sum >= One
           current == AdvanceKeyframe(anim, sum).currentKeyframe
           nextFrame == (current + 1) % KEYFRAME_COUNT
           left == AdvanceKeyframe(anim, sum).frameAccumulator
       IN  /\ animationState' = [anim EXCEPT !.frameAccumulator = left,
                                             !.currentKeyframe = current]
           /\ arrays' = IF step
                          THEN UpdateKeyframeAttributes(arrays, current, nextFrame)
                          ELSE arrays
           /\ crane' = WriteUniforms(crane, CraneFrameWrites(state, left))
           /\ writers' = [writers EXCEPT !.frame =
                            @ \cup Written("crane", CraneFrameWrites(state, left))]
           /\ accumulated' = sum
           /\ played' = [wall |-> Min(played.wall + state.interval, MaxWall),
                         advances |-> Min(played.advances + (IF step THEN 1 ELSE 0),
                                          MaxAdvances)]
           /\ UNCHANGED <<helix, timeline, craneMounted, scrollVars, sectionVars,
                          historyVars, gltf, builds, particleData, keyframePositions,
                          aPosition0, aPosition1, meshRef, threw, lifeVars,
                          bridgeVars, particles, sample, gate>>

(***************************************************************************)
(* Scroll geometry and ScrollTrigger.                                      *)
(***************************************************************************)
\* The unit of scroll position is half a viewport height: start and end of
\* a section's trigger are at the viewport's center.
HalfViewport == 1

ViewportHeight == 2 * HalfViewport

\* The trigger divs: one of height 100vh per section.
DocumentHeight == SectionCount * ViewportHeight

MaxScroll == DocumentHeight - ViewportHeight

ScrollPositions == 0..MaxScroll

\* start: 'top center' and end: 'bottom center' of section k's trigger div.
SectionStart(k) == (k - 1) * ViewportHeight - HalfViewport
SectionEnd(k) == k * ViewportHeight - HalfViewport

\* A ScrollTrigger's progress at scroll position y, clipped to [0, 1].
ClippedProgress(y, start, end) ==
  IF y <= start THEN 0
  ELSE IF y >= end THEN One
  ELSE ((y - start) * One) \div (end - start)

\* ToggleCallbacks firing one callback only when the scroll passes over the
\* whole range.
ToggleCallbacksFirstOnly(prev, clipped) ==
  LET nowActive == clipped > 0 /\ clipped < One
      wasActive == prev > 0 /\ prev < One
      stateChanged == (nowActive # wasActive) \/ ((clipped # 0) # (prev # 0))
  IN  IF clipped = prev \/ ~stateChanged THEN <<>>
      ELSE IF clipped # 0 /\ prev = 0 THEN <<"onEnter">>
      ELSE IF clipped = One THEN <<"onLeave">>
      ELSE IF prev = One THEN <<"onEnterBack">>
      ELSE <<"onLeaveBack">>

\* The callbacks a ScrollTrigger fires when its progress goes from prev to
\* clipped: one when it toggles between active and inactive, two when the
\* scroll passes over its whole range.
ToggleCallbacks(prev, clipped) ==
  LET nowActive == clipped > 0 /\ clipped < One
      wasActive == prev > 0 /\ prev < One
      toggled == nowActive # wasActive
      stateChanged == toggled \/ ((clipped # 0) # (prev # 0))
      toggleState == IF clipped # 0 /\ prev = 0 THEN "onEnter"
                     ELSE IF clipped = One THEN "onLeave"
                     ELSE IF prev = One THEN "onEnterBack"
                     ELSE "onLeaveBack"
  IN  IF clipped = prev \/ ~stateChanged THEN <<>>
      ELSE IF toggled THEN <<toggleState>>
      ELSE <<toggleState, IF clipped = One THEN "onLeave" ELSE "onLeaveBack">>

\* The triggers updated in creation order whatever the direction.
TriggerOrderCreation(from, to) == [i \in 1..SectionCount |-> i]

\* ScrollTrigger updates its triggers in creation order, and in the reverse
\* order when the scroll position went down in value.
TriggerOrder(from, to) ==
  IF from > to THEN [i \in 1..SectionCount |-> SectionCount + 1 - i]
  ELSE [i \in 1..SectionCount |-> i]

(***************************************************************************)
(* Section: animateIn, animateOut and the ScrollTrigger callbacks.         *)
(***************************************************************************)
\* gsap.fromTo(el, { opacity: 0, y: 4 }, ...)
ElementFrom == [opacity |-> 0, y |-> 4 * One]
ElementTo == [opacity |-> One, y |-> 0]

\* animateIn(content): B is the state the callbacks of one update thread
\* through.  fromTo writes its start values at once.
AnimateIn(B, id) ==
  LET container == GsapTo(<<"content", id>>, [opacity |-> One],
                          FadeInDuration, "power2.out")
      elements == [n \in 1..ElementCount |->
                     GsapFromTo(<<"element", id, n>>, ElementFrom, ElementTo,
                                ElementDuration,
                                ElementDelay + (n - 1) * ElementStagger,
                                "power2.out")]
  IN  [B EXCEPT !.S.created = @ \o <<container>> \o elements,
                !.element[id] = [n \in 1..ElementCount |-> ElementFrom]]

\* animateOut(content)
AnimateOut(B, id) ==
  [B EXCEPT !.S.created =
     Append(@, GsapTo(<<"content", id>>, [opacity |-> 0], FadeOutDuration, "power2.in"))]

\* The callbacks with onEnterBack not calling onEnter(id).
SectionCallbackSilentBack(B, id, callback) ==
  IF callback = "onEnter"
    THEN AnimateIn([B EXCEPT !.isActive[id] = TRUE,
                             !.calls = Append(@, id),
                             !.S = HandleSectionChange(@, id)], id)
    ELSE IF callback = "onEnterBack"
    THEN AnimateIn([B EXCEPT !.isActive[id] = TRUE], id)
    ELSE AnimateOut([B EXCEPT !.isActive[id] = FALSE], id)

\* onEnter / onEnterBack: setIsActive(true); onEnter(id); animateIn(content)
\* onLeave / onLeaveBack: setIsActive(false); animateOut(content)
\* onEnter is App.handleSectionChange, which calls transitionToState(id).
SectionCallback(B, id, callback) ==
  IF callback \in {"onEnter", "onEnterBack"}
    THEN AnimateIn([B EXCEPT !.isActive[id] = TRUE,
                             !.calls = Append(@, id),
                             !.S = HandleSectionChange(@, id)], id)
    ELSE AnimateOut([B EXCEPT !.isActive[id] = FALSE], id)

RECURSIVE RunCallbacks(_, _, _)
RunCallbacks(B, id, callbacks) ==
  IF callbacks = <<>> THEN B
  ELSE RunCallbacks(SectionCallback(B, id, Head(callbacks)), id, Tail(callbacks))

\* The update of section k's ScrollTrigger at scroll position y.
SectionTriggerUpdate(B, k, y) ==
  LET id == SectionIds[k]
      clipped == ClippedProgress(y, SectionStart(k), SectionEnd(k))
  IN  RunCallbacks([B EXCEPT !.trigger[id] = clipped], id,
                   ToggleCallbacks(B.trigger[id], clipped))

RECURSIVE SectionTriggersUpdate(_, _, _)
SectionTriggersUpdate(B, order, y) ==
  IF order = <<>> THEN B
  ELSE SectionTriggersUpdate(SectionTriggerUpdate(B, Head(order), y), Tail(order), y)

(***************************************************************************)
(* The helix timeline's ScrollTrigger and its scrub.                       *)
(***************************************************************************)
\* The scrub tween before any progress change.
IdleScrub == [active |-> FALSE, to |-> 0, from |-> 0, init |-> FALSE, t |-> 0]

\* The trigger ending where the document's bottom meets the viewport's top.
HelixTriggerUpdateBottomTop(y) ==
  LET clipped == ClippedProgress(y, 0, DocumentHeight)
  IN  /\ stProgress' = clipped
      /\ scrubTween' = IF clipped = stProgress THEN scrubTween
                       ELSE [active |-> TRUE, to |-> clipped, from |-> 0,
                             init |-> FALSE, t |-> 0]

\* A progress change retargets the single scrub tween and restarts it; it
\* eases tl's totalProgress from where that is to the new progress.
HelixTriggerUpdate(y) ==
  LET clipped == ClippedProgress(y, 0, MaxScroll)
  IN  /\ stProgress' = clipped
      /\ scrubTween' = IF clipped = stProgress THEN scrubTween
                       ELSE [active |-> TRUE, to |-> clipped, from |-> 0,
                             init |-> FALSE, t |-> 0]

\* One render of the scrub tween: [tw, progress], progress being tl's
\* totalProgress after it.
RenderScrub(tw, progress, dt) ==
  IF ~tw.active THEN [tw |-> tw, progress |-> progress]
  ELSE LET t2 == Min(tw.t + dt, ScrubDuration)
           from == IF tw.init THEN tw.from ELSE progress
           r == EaseRatio("expo", t2, ScrubDuration)
       IN  [tw |-> [tw EXCEPT !.t = t2, !.init = TRUE, !.from = from,
                              !.active = t2 < ScrubDuration],
            progress |-> Interpolate(from, tw.to, r)]

\* tl.to(uniforms.uScroll, { value: 1, ease: "none" }): uScroll at tl's
\* totalProgress.
TimelineUScroll(progress) == Interpolate(0, One, [num |-> progress, den |-> One])

\* CameraController's tween before any progress change.
IdleCamera == [stProgress |-> 0, scrubTween |-> IdleScrub, progress |-> 0]

\* The update of the camera tween's trigger, which has the helix
\* timeline's start, end and scrub.
CameraTriggerUpdate(cam, y) ==
  LET clipped == ClippedProgress(y, 0, MaxScroll)
  IN  [cam EXCEPT !.stProgress = clipped,
                  !.scrubTween = IF clipped = cam.stProgress THEN @
                                 ELSE [active |-> TRUE, to |-> clipped, from |-> 0,
                                       init |-> FALSE, t |-> 0]]

\* The history of downward runs after a scroll from position from to y.
DownRunAfter(from, y) ==
  IF y = from THEN downRun
  ELSE IF y < from THEN [fromTop |-> FALSE, fromRest |-> FALSE]
  ELSE IF from = 0
    THEN [fromTop |-> TRUE,
          fromRest |-> ~scrubTween.active /\ helix.uScroll.value = 0]
  ELSE downRun

(***************************************************************************)
(* The enter gate: EnterScreen, App's handleEnter and useAudio.            *)
(***************************************************************************)
\* duration: 1.5 of the enter screen's fade.
EnterFadeDuration == 75

\* The gate before a click: useState(false) in App and in useAudio, the
\* audio element created paused, the enter screen opaque.
GateClosed ==
  [entered |-> FALSE, playing |-> FALSE,
   next |-> [entered |-> FALSE, playing |-> FALSE],
   paused |-> TRUE, opacity |-> One, fades |-> <<>>, clicks |-> 0]

\* The gate after one click's fade and the render that followed.
GateOpen ==
  [entered |-> TRUE, playing |-> TRUE,
   next |-> [entered |-> TRUE, playing |-> TRUE],
   paused |-> FALSE, opacity |-> 0, fades |-> <<>>, clicks |-> 1]

\* EnterScreen's handleEnter: gsap.to(containerRef.current, { opacity: 0,
\* duration: 1.5, ease: 'power2.inOut', onComplete: onEnter }).  onEnter is
\* App's handleEnter of the render on screen, whose toggle closes over that
\* render's playing.
EnterFade(G) ==
  [obj |-> <<"enter">>, to |-> [opacity |-> 0], dur |-> EnterFadeDuration,
   delay |-> 0, ease |-> "power2.inOut", t |-> 0, init |-> FALSE,
   from |-> [opacity |-> 0], onComplete |-> [playing |-> G.playing]]

\* A toggle that negates the state queued last.
ToggleQueued(closure, queued) == ~queued

\* const toggle = () => setPlaying(!playing)
Toggle(closure, queued) == ~closure

\* App's handleEnter called by the fades that ended, in order:
\* setEntered(true); toggle().
RECURSIVE HandleEnter(_, _)
HandleEnter(next, ended) ==
  IF ended = <<>> THEN next
  ELSE HandleEnter([entered |-> TRUE,
                    playing |-> Toggle(Head(ended).onComplete.playing,
                                       next.playing)],
                   Tail(ended))

\* The gate after a tick of gsap's ticker: the fades render on the enter
\* screen's element, and those that end call onComplete.
TickFades(G, dt) ==
  LET r == RenderTrack(G.fades, 1, [opacity |-> G.opacity], dt)
      ended == SelectSeq(G.fades, LAMBDA f : f.t + dt >= f.dur)
  IN  [G EXCEPT !.opacity = r.props.opacity,
                !.fades = r.rest,
                !.next = HandleEnter(G.next, ended)]

(***************************************************************************)
(* Steps: a ScrollTrigger update and a gsap tick.                          *)
(***************************************************************************)
ActiveSections(active) == {id \in SectionNames : active[id]}

\* The history of crossings after an update that found the sections before
\* active and left the sections after active.
CrossedBy(before, after) ==
  LET from == ActiveSections(before)
      to == ActiveSections(after)
  IN  IF updates >= 1 /\ Cardinality(from) = 1 /\ Cardinality(to) = 1 /\ from # to
        THEN <<CHOOSE p \in from : TRUE, CHOOSE q \in to : TRUE>>
        ELSE <<>>

\* ScrollTrigger.update() at scroll position y: the helix timeline's
\* trigger and the eight sections' triggers.
ScrollTriggerUpdate(y) ==
  /\ IF "helix" \in observers THEN HelixTriggerUpdate(y)
     ELSE UNCHANGED <<stProgress, scrubTween>>
  /\ camera' = IF "camera" \in observers THEN CameraTriggerUpdate(camera, y)
               ELSE camera
  /\ LET B == SectionTriggersUpdate(
                [S |-> CurrentStore, trigger |-> trigger, isActive |-> isActive,
                 element |-> element, calls |-> <<>>],
                SelectSeq(TriggerOrder(scrollY, y),
                          LAMBDA k : SectionIds[k] \in observers), y)
     IN  /\ SetStore(B.S)
         /\ trigger' = B.trigger
         /\ isActive' = B.isActive
         /\ element' = B.element
         /\ calls' = B.calls
         /\ crossed' = CrossedBy(isActive, B.isActive)
  /\ scrollY' = y
  /\ updates' = Min(updates + 1, MaxScrollUpdates)
  /\ updatedThisFrame' = TRUE
  /\ downRun' = DownRunAfter(scrollY, y)
  /\ UNCHANGED <<helix, crane, content, craneMounted, tlProgress, supersededWrite,
                 playerVars, observers, unmounted, lateWrite, writers, handles,
                 particles, sample, gate>>

\* The update of the helix timeline's trigger alone.
HelixScrollUpdate(y) ==
  /\ HelixTriggerUpdate(y)
  /\ scrollY' = y
  /\ updatedThisFrame' = TRUE
  /\ downRun' = DownRunAfter(scrollY, y)
  /\ UNCHANGED <<storeVars, craneMounted, tlProgress, trigger, isActive, content,
                 element, requestVars, supersededWrite, calls, updates, crossed,
                 componentVars>>

\* The component whose uniforms or elements a tween on obj animates.
Owner(obj) == IF obj[1] \in {"helix", "crane"} THEN obj[1] ELSE obj[2]

\* A tween of the track renders in a tick dt long: its delay has passed.
Writes(track, dt) ==
  \E i \in 1..Len(track) : track[i].t + dt >= track[i].delay

\* One tick of gsap's ticker, dt after the previous one: every live tween
\* renders, in creation order, and the scrub tween renders tl.
GsapTick(dt) ==
  LET W == [helix |-> helix, crane |-> crane, content |-> content, element |-> element]
      r == RenderTimeline(timeline, W, dt)
      s == RenderScrub(scrubTween, tlProgress, dt)
      c == RenderScrub(camera.scrubTween, camera.progress, dt)
  IN  /\ timeline' = r.rest
      /\ camera' = [camera EXCEPT !.scrubTween = c.tw, !.progress = c.progress]
      /\ writers' = [writers EXCEPT !.tween =
                       @ \cup {obj \in DOMAIN timeline :
                                 /\ obj[1] \in {"helix", "crane"}
                                 /\ Writes(timeline[obj], dt)}
                         \cup (IF scrubTween.active
                                 THEN {<<"helix", "uScroll">>} ELSE {})]
      /\ lateWrite' = \E obj \in DOMAIN timeline :
                         Owner(obj) \in unmounted /\ Writes(timeline[obj], dt)
      /\ helix' = IF scrubTween.active
                    THEN [r.W.helix EXCEPT !.uScroll.value = TimelineUScroll(s.progress)]
                    ELSE r.W.helix
      /\ crane' = r.W.crane
      /\ content' = r.W.content
      /\ element' = r.W.element
      /\ scrubTween' = s.tw
      /\ tlProgress' = s.progress
      /\ sinceRequest' = Min(sinceRequest + dt, TransitionDuration)
      /\ supersededWrite' = r.stale
      /\ updatedThisFrame' = FALSE
      /\ calls' = <<>>
      /\ received' = <<>>
      /\ gate' = TickFades(gate, dt)
      /\ UNCHANGED <<animationState, craneMounted, scrollY, stProgress, trigger,
                     isActive, lastRequest, requests, target, updates, crossed,
                     downRun, playerVars, observers, unmounted, handles,
                     particles, sample>>

\* A click on the enter screen, which is rendered while entered is false.
EnterClick ==
  /\ ~gate.entered
  /\ gate.clicks < MaxClicks
  /\ gate' = [gate EXCEPT !.fades = Append(@, EnterFade(gate)),
                          !.clicks = @ + 1]
  /\ UNCHANGED <<storeVars, craneMounted, scrollVars, sectionVars, historyVars,
                 playerVars, lifeVars, writers, bridgeVars, particles, sample>>

\* App renders the state handleEnter queued and commits: the audio effect
\* plays or pauses the element; when entered turned true the enter screen
\* unmounts and ContentSections mounts, each Section's effect creating its
\* trigger and the first one calling animateIn.
AppCommit ==
  /\ gate.next # [entered |-> gate.entered, playing |-> gate.playing]
  /\ gate' = [gate EXCEPT !.entered = gate.next.entered,
                          !.playing = gate.next.playing,
                          !.paused = IF gate.next.playing # gate.playing
                                       THEN ~gate.next.playing ELSE @]
  /\ IF gate.next.entered /\ ~gate.entered
       THEN LET B == AnimateIn([S |-> [created |-> <<>>], element |-> element],
                               SectionIds[1])
            IN  /\ observers' = observers \cup SectionNames
                /\ timeline' = AddTweens(timeline, B.S.created)
                /\ element' = B.element
       ELSE UNCHANGED <<observers, timeline, element>>
  /\ UNCHANGED <<helix, crane, animationState, craneMounted, scrollVars,
                 trigger, isActive, content, updatedThisFrame, historyVars,
                 playerVars, unmounted, camera, lateWrite, writers, bridgeVars,
                 particles, sample>>

(***************************************************************************)
(* Re-renders: useMemo and its dependency arrays.                          *)
(***************************************************************************)
\* A useMemo without a dependency array: the callback runs in every render.
DepsChangedAlways(prev, next) == TRUE

\* React's comparison of a hook's dependency arrays, element by element.
DepsChanged(prev, next) == \E i \in 1..Len(prev) : prev[i] # next[i]

\* A re-render of EtherealParticles (useThree's store changed): particles
\* is useMemo(..., []).
HelixRender ==
  /\ handles.particlesRef
  /\ builds.renders < MaxRenders
  /\ IF DepsChanged(<<>>, <<>>)
       THEN /\ \E random \in RandomValues :
                 particles' = [ParticlesBuilt EXCEPT !.random = random]
            /\ builds' = [builds EXCEPT !.helix = @ + 1, !.renders = @ + 1]
       ELSE /\ particles' = particles
            /\ builds' = [builds EXCEPT !.renders = @ + 1]
  /\ UNCHANGED <<storeVars, craneMounted, scrollVars, sectionVars, historyVars,
                 gltf, played, particleData, keyframePositions, arrays,
                 aPosition0, aPosition1, meshRef, accumulated, threw, lifeVars,
                 writers, bridgeVars, sample, gate>>

\* A re-render of CraneParticles: useLoader returns the cached gltf, and the
\* build is useMemo(..., [gltf]); the reveal effect's dependencies are
\* [particleData, uniforms].
CraneRender ==
  /\ craneMounted
  /\ builds.renders < MaxRenders
  /\ IF DepsChanged(<<gltf>>, <<gltf>>)
       THEN LET b == BuildParticles(gltf)
            IN  /\ particleData' = b.particleData
                /\ keyframePositions' = b.keyframePositions
                /\ arrays' = b.arrays
                /\ meshRef' = Renders(b)
                /\ aPosition0' = InitialPositions0(b)
                /\ aPosition1' = InitialPositions1(b)
                /\ timeline' = AddTweens(timeline, RevealTweens(b))
                /\ builds' = [builds EXCEPT !.crane = @ + 1, !.renders = @ + 1]
       ELSE /\ builds' = [builds EXCEPT !.renders = @ + 1]
            /\ UNCHANGED <<particleData, keyframePositions, arrays, meshRef,
                           aPosition0, aPosition1, timeline>>
  /\ UNCHANGED <<helix, crane, animationState, craneMounted, scrollVars,
                 sectionVars, historyVars, gltf, played, accumulated, threw,
                 lifeVars, writers, bridgeVars, particles, sample, gate>>

(***************************************************************************)
(* Mounting: the commits that fill the refs.                               *)
(***************************************************************************)
\* App's commit: <Experience ref={experienceRef} /> attaches Experience's
\* handle.
ExperienceAttach ==
  /\ ~handles.experienceRef
  /\ handles' = [handles EXCEPT !.experienceRef = TRUE]
  /\ UNCHANGED <<storeVars, craneMounted, scrollVars, sectionVars, historyVars,
                 playerVars, lifeVars, writers, received, particles, sample, gate>>

\* The canvas's commit, later than App's: the helix's handle, then Scene's.
SceneAttach ==
  /\ handles.experienceRef
  /\ ~handles.sceneRef
  /\ handles' = [handles EXCEPT !.particlesRef = TRUE, !.sceneRef = TRUE]
  /\ UNCHANGED <<storeVars, craneMounted, scrollVars, sectionVars, historyVars,
                 playerVars, lifeVars, writers, received, particles, sample, gate>>

(***************************************************************************)
(* Teardown: the cleanups of the components' effects.                      *)
(***************************************************************************)
\* ScrollTrigger's kill(): the trigger leaves the list ScrollTrigger
\* updates and its scrub tween is killed.
KillScrub(tw) == [tw EXCEPT !.active = FALSE]

\* The helix's cleanup: tl.scrollTrigger.kill(), then tl.kill().  The tweens
\* transitionToState started are not in tl.
HelixUnmount ==
  /\ "helix" \notin unmounted
  /\ unmounted' = unmounted \cup {"helix"}
  /\ observers' = observers \ {"helix"}
  /\ scrubTween' = KillScrub(scrubTween)
  /\ handles' = [handles EXCEPT !.particlesRef = FALSE]
  /\ UNCHANGED <<storeVars, craneMounted, stProgress, tlProgress, scrollY,
                 updatedThisFrame, sectionVars, historyVars, playerVars, camera,
                 lateWrite, writers, received, particles, sample, gate>>

\* A Section that keeps every trigger it created: the cleanup without its
\* trigger.kill().
SectionCleanupNone(obs, id) == obs

\* A Section's cleanup: trigger.kill().
SectionCleanup(obs, id) == obs \ {id}

SectionUnmount(id) ==
  /\ id \notin unmounted
  /\ unmounted' = unmounted \cup {id}
  /\ observers' = SectionCleanup(observers, id)
  /\ UNCHANGED <<storeVars, craneMounted, scrollVars, sectionVars, historyVars,
                 playerVars, camera, lateWrite, writers, bridgeVars, particles, sample, gate>>

\* CameraController's cleanup: ScrollTrigger.getAll().forEach(t => t.kill()),
\* which kills every live trigger of the page, the helix timeline's and the
\* sections' included, and with each its scrub tween.
CameraUnmount ==
  /\ "camera" \notin unmounted
  /\ unmounted' = unmounted \cup {"camera"}
  /\ observers' = {}
  /\ scrubTween' = IF "helix" \in observers THEN KillScrub(scrubTween)
                   ELSE scrubTween
  /\ camera' = IF "camera" \in observers
               THEN [camera EXCEPT !.scrubTween = KillScrub(@)] ELSE camera
  /\ UNCHANGED <<storeVars, craneMounted, stProgress, tlProgress, scrollY,
                 updatedThisFrame, sectionVars, historyVars, playerVars,
                 lateWrite, writers, bridgeVars, particles, sample, gate>>

\* The crane's unmount: its effects have no cleanup; the handle Scene holds
\* is cleared.
CraneUnmount ==
  /\ craneMounted
  /\ "crane" \notin unmounted
  /\ unmounted' = unmounted \cup {"crane"}
  /\ craneMounted' = FALSE
  /\ UNCHANGED <<storeVars, scrollVars, sectionVars, historyVars, playerVars,
                 observers, camera, lateWrite, writers, bridgeVars, particles, sample, gate>>

(***************************************************************************)
(* Initial states.                                                         *)
(***************************************************************************)
\* One value per section.
PerSection(v) ==
  [hero |-> v, problem |-> v, team |-> v, philosophy |-> v,
   services |-> v, process |-> v, quote |-> v, cta |-> v]

\* useState(false) in every section.
InitialIsActiveNone == PerSection(FALSE)

\* const [isActive, setIsActive] = useState(isFirstSection)
InitialIsActive == [PerSection(FALSE) EXCEPT ![SectionIds[1]] = TRUE]

\* The content div's style: opacity: 0.
InitialContent == PerSection([opacity |-> 0])

\* Text elements nothing has animated yet.
InitialElement == PerSection([n \in 1..ElementCount |-> [opacity |-> One, y |-> 0]])

\* Every object a tween animates.
AnimatedObjects ==
  {<<"helix", u>> : u \in DOMAIN InitialHelixUniforms}
    \cup {<<"crane", u>> : u \in DOMAIN InitialCraneUniforms}
    \cup {<<"content", id>> : id \in SectionNames}
    \cup {<<"element", id, n>> : id \in SectionNames, n \in 1..ElementCount}

\* The timeline with no tween on it.
NoTweens == [obj \in AnimatedObjects |-> <<>>]

\* The refs before any commit, and after App's and the canvas's commits.
EmptyHandles ==
  [experienceRef |-> FALSE, sceneRef |-> FALSE, particlesRef |-> FALSE]

AttachedHandles ==
  [experienceRef |-> TRUE, sceneRef |-> TRUE, particlesRef |-> TRUE]

\* The ScrollTriggers of the helix's timeline and of the camera's tween.
CanvasObservers == {"helix", "camera"}

\* The canvas's state but for the helix's geometry.
CanvasMounting ==
  /\ helix = InitialHelixUniforms
  /\ animationState = InitialAnimationState
  /\ scrollY = 0
  /\ stProgress = 0
  /\ tlProgress = 0
  /\ scrubTween = IdleScrub
  /\ trigger = PerSection(0)
  /\ isActive = InitialIsActive
  /\ content = InitialContent
  /\ updatedThisFrame = FALSE
  /\ lastRequest = "hero"
  /\ requests = 0
  /\ target = [helix |-> "hero", crane |-> "hero"]
  /\ sinceRequest = TransitionDuration
  /\ supersededWrite = FALSE
  /\ calls = <<>>
  /\ updates = 0
  /\ crossed = <<>>
  /\ downRun = [fromTop |-> FALSE, fromRest |-> FALSE]
  /\ unmounted = {}
  /\ writers = [frame |-> {}, tween |-> {}]
  /\ received = <<>>
  /\ camera = IdleCamera
  /\ lateWrite = FALSE

\* The canvas is mounted; no section has run an effect.
InitCanvas ==
  /\ CanvasMounting
  /\ particles = ParticlesBuilt

\* CraneParticles is suspended on the loading of model g.
CraneSuspended(g) ==
  /\ craneMounted = FALSE
  /\ crane = InitialCraneUniforms
  /\ gltf = g
  /\ sample = SampleStart(g.vertexCount)
  /\ builds = [helix |-> 1, crane |-> 0, renders |-> 0]
  /\ played = [wall |-> 0, advances |-> 0]
  /\ particleData = Null
  /\ keyframePositions = <<>>
  /\ arrays = <<>>
  /\ aPosition0 = Null
  /\ aPosition1 = Null
  /\ meshRef = FALSE
  /\ accumulated = 0
  /\ threw = FALSE

\* The crane's model is still loading.
CraneLoading == CraneSuspended(CraneModel)

\* The crane has mounted and its reveal tween has finished.
CraneRevealed ==
  LET b == BuildParticles(CraneModel)
  IN  /\ craneMounted = TRUE
      /\ crane = [InitialCraneUniforms EXCEPT !.uRevealProgress.value = One]
      /\ gltf = CraneModel
      /\ sample = SampleStart(CraneModel.vertexCount)
      /\ builds = [helix |-> 1, crane |-> 1, renders |-> 0]
      /\ played = [wall |-> 0, advances |-> 0]
      /\ particleData = b.particleData
      /\ keyframePositions = b.keyframePositions
      /\ arrays = b.arrays
      /\ aPosition0 = InitialPositions0(b)
      /\ aPosition1 = InitialPositions1(b)
      /\ meshRef = TRUE
      /\ accumulated = 0
      /\ threw = FALSE

\* The page before the visitor enters.
InitStore ==
  /\ InitCanvas
  /\ gate = GateClosed
  /\ observers = CanvasObservers
  /\ handles = AttachedHandles
  /\ CraneLoading
  /\ timeline = NoTweens
  /\ element = InitialElement

\* The visitor has entered: the sections are mounted, their triggers
\* created, and the first section's effect has called animateIn.
InitPage ==
  /\ InitCanvas
  /\ gate = GateOpen
  /\ observers = CanvasObservers \cup SectionNames
  /\ handles = AttachedHandles
  /\ CraneLoading \/ CraneRevealed
  /\ LET B == AnimateIn([S |-> [created |-> <<>>], element |-> InitialElement],
                        SectionIds[1])
     IN  /\ timeline = AddTweens(NoTweens, B.S.created)
         /\ element = B.element

(***************************************************************************)
(* Specifications.                                                         *)
(***************************************************************************)
\* The store: transitionToState called with any name at any time, the
\* crane's model loading at any time.
StoreDeltas == {50}

Request == \E stateName \in RequestNames : TransitionToState(stateName)

TickStore == \E dt \in StoreDeltas : GsapTick(dt)

NextStore == Request \/ CraneMount \/ TickStore

SpecStore == InitStore /\ [][NextStore]_vars

\* The page: in every frame at most one scroll movement, to any position;
\* frames long enough for every transition and fade to finish.
PageDeltas == {TransitionDuration}

ScrollPage ==
  /\ ~updatedThisFrame
  /\ \E y \in ScrollPositions : ScrollTriggerUpdate(y)

TickPage == \E dt \in PageDeltas : GsapTick(dt)

NextPage == ScrollPage \/ TickPage

SpecPage == InitPage /\ [][NextPage]_vars

\* The fades: a few scroll movements between the first sections and to the
\* bottom, at any time, ticks as long as the shortest fade.
FadeStops == {0, ViewportHeight, 2 * ViewportHeight, MaxScroll}

FadeDeltas == {FadeOutDuration}

ScrollFade ==
  /\ updates < MaxScrollUpdates
  /\ \E y \in FadeStops : ScrollTriggerUpdate(y)

TickFade == \E dt \in FadeDeltas : GsapTick(dt)

NextFade == ScrollFade \/ TickFade

SpecFade == InitPage /\ [][NextFade]_vars

\* The helix's scroll channel: its trigger's updates, at most one a frame,
\* at the top, half a viewport below it, the middle and the bottom.
ScrollStops == {0, HalfViewport, MaxScroll \div 2, MaxScroll}

ScrollDeltas == {10}

ScrollHelix ==
  /\ ~updatedThisFrame
  /\ \E y \in ScrollStops : HelixScrollUpdate(y)

TickScroll == \E dt \in ScrollDeltas : GsapTick(dt)

NextScroll == ScrollHelix \/ TickScroll

SpecScroll == InitPage /\ [][NextScroll]_vars

\* The helix's particles useMemo, run when EtherealParticles first renders.
InitGeometry ==
  /\ CanvasMounting
  /\ gate = GateClosed
  /\ observers = {}
  /\ handles = AttachedHandles
  /\ particles = ParticlesStart
  /\ CraneLoading
  /\ timeline = NoTweens
  /\ element = InitialElement

NextGeometry == ParticleStep

SpecGeometry == InitGeometry /\ [][NextGeometry]_vars

\* The crane: models with and without skinned mesh, skeleton and clip,
\* frames at uneven intervals, and transitionToState calls.
GltfModels ==
  {Gltf(TRUE, TRUE, TRUE, duration, MinVertices) : duration \in 1..MaxClipDuration}
    \cup {Gltf(TRUE, TRUE, TRUE, 1, MAX_PARTICLES + 1),
           Gltf(FALSE, FALSE, TRUE, 1, MinVertices),
           Gltf(TRUE, FALSE, TRUE, 1, MinVertices),
           Gltf(TRUE, TRUE, FALSE, 1, MinVertices),
           Gltf(FALSE, FALSE, FALSE, 1, MinVertices)}

FrameDeltas == {2}

\* What r3f hands the crane's useFrame.
CraneFrameStates ==
  {[elapsed |-> 50, pointer |-> Vector2(0, 0), viewport |-> viewport,
    interval |-> 1]}

CraneNames == {"team"}

CraneTicks == {RevealDuration}

InitCrane ==
  /\ InitCanvas
  /\ gate = GateClosed
  /\ observers = CanvasObservers
  /\ handles = AttachedHandles
  /\ \E g \in GltfModels : CraneSuspended(g)
  /\ timeline = NoTweens
  /\ element = InitialElement

FrameCrane ==
  \E delta \in FrameDeltas, state \in CraneFrameStates : CraneFrame(delta, state)

RequestCrane == \E stateName \in CraneNames : TransitionToState(stateName)

TickCrane == \E dt \in CraneTicks : GsapTick(dt)

NextCrane == CraneMount \/ FrameCrane \/ RequestCrane \/ TickCrane

SpecCrane == InitCrane /\ [][NextCrane]_vars

\* Both channels of the helix: transitionToState calls and scroll movements
\* to the top and the bottom.
ChannelNames == {"team", "quote"}

ChannelStops == {0, MaxScroll}

ChannelDeltas == {25}

RequestChannel == \E stateName \in ChannelNames : TransitionToState(stateName)

ScrollChannel ==
  /\ ~updatedThisFrame
  /\ \E y \in ChannelStops : HelixScrollUpdate(y)

TickChannels == \E dt \in ChannelDeltas : GsapTick(dt)

NextChannels == RequestChannel \/ ScrollChannel \/ TickChannels

SpecChannels == InitPage /\ [][NextChannels]_vars

\* Teardown: the page scrolled between a few positions, short ticks, and
\* any component torn down at any time.
TeardownPositions == {0, ViewportHeight}

TeardownDeltas == {TransitionDuration}

TeardownSections == {"hero"}

ScrollTeardown ==
  /\ ~updatedThisFrame
  /\ \E y \in TeardownPositions : ScrollTriggerUpdate(y)

TickTeardown == \E dt \in TeardownDeltas : GsapTick(dt)

SectionTeardown == \E id \in TeardownSections : SectionUnmount(id)

NextTeardown ==
  \/ ScrollTeardown
  \/ TickTeardown
  \/ HelixUnmount
  \/ SectionTeardown
  \/ CameraUnmount
  \/ CraneUnmount

SpecTeardown == InitPage /\ [][NextTeardown]_vars

\* The uniforms: both visuals' frame callbacks, a state request, the
\* scrubbed timeline and gsap's ticks, in any order.
UniformFrameStates ==
  {[elapsed |-> 50, pointer |-> Vector2(10, -10), viewport |-> viewport,
    interval |-> 1]}

UniformDeltas == {0}

UniformPositions == {MaxScroll}

FrameHelix == \E state \in UniformFrameStates : HelixFrame(state)

FrameUniforms ==
  \E delta \in UniformDeltas, state \in UniformFrameStates : CraneFrame(delta, state)

ScrollUniforms ==
  /\ ~updatedThisFrame
  /\ \E y \in UniformPositions : HelixScrollUpdate(y)

TickUniforms == \E dt \in CraneTicks : GsapTick(dt)

NextUniforms ==
  \/ FrameHelix
  \/ FrameUniforms
  \/ RequestCrane
  \/ CraneMount
  \/ ScrollUniforms
  \/ TickUniforms

SpecUniforms == InitStore /\ [][NextUniforms]_vars

\* The bridge: a section-change notification at any time from before App's
\* commit to after the crane's model has loaded.
InitBridge ==
  /\ InitCanvas
  /\ gate = GateClosed
  /\ observers = {}
  /\ handles = EmptyHandles
  /\ CraneLoading
  /\ timeline = NoTweens
  /\ element = InitialElement

BridgeNames == {"team", "quote"}

RequestBridge == \E sectionId \in BridgeNames : TransitionToState(sectionId)

TickBridge == \E dt \in StoreDeltas : GsapTick(dt)

NextBridge ==
  \/ ExperienceAttach
  \/ SceneAttach
  \/ CraneMount
  \/ RequestBridge
  \/ TickBridge

SpecBridge == InitBridge /\ [][NextBridge]_vars

\* The builds: re-renders, frames of both visuals, requests and scroll
\* movements, and the crane's load at any time.
BuildPositions == {MaxScroll}

ScrollBuild == \E y \in BuildPositions : HelixScrollUpdate(y)

NextBuild ==
  \/ HelixRender
  \/ CraneRender
  \/ FrameHelix
  \/ FrameCrane
  \/ RequestCrane
  \/ CraneMount
  \/ ScrollBuild

SpecBuild == InitStore /\ [][NextBuild]_vars

\* The playback: the crane at its initial speed, frames at uneven
\* intervals.  clock.getDelta() follows clock.getElapsedTime() in the same
\* callback, so the delta it returns is the time between the two calls (lag),
\* not the frame's interval.
PlayIntervals == {1, 2, 3, 4}

PlayLags == {0, 1, 2}

FramePlay ==
  \E interval \in PlayIntervals, lag \in PlayLags :
    /\ played.wall < MaxWall
    /\ lag <= interval
    /\ CraneFrame(lag, [elapsed |-> 50, pointer |-> Vector2(0, 0),
                        viewport |-> viewport, interval |-> interval])

NextPlay == CraneMount \/ FramePlay \/ TickCrane

SpecPlay == InitStore /\ [][NextPlay]_vars

\* The keyframe player: frames whose clock delta is a thirtieth of a second
\* or seven seconds, at the speeds of "hero" and of "team".
KeyframeDeltas == {2, 7 * 60}

KeyframeNames == {"team"}

FrameKeyframe ==
  \E delta \in KeyframeDeltas, state \in CraneFrameStates : CraneFrame(delta, state)

RequestKeyframe == \E stateName \in KeyframeNames : TransitionToState(stateName)

NextKeyframe == CraneMount \/ FrameKeyframe \/ RequestKeyframe \/ TickCrane

SpecKeyframe == InitStore /\ [][NextKeyframe]_vars

\* The gate: clicks on the enter screen at any time before the page is
\* entered, ticks of a second, the crane's load, and scroll movements, which
\* the document allows once the sections' trigger divs are in it.
GateTicks == {50}

GatePositions == {0, ViewportHeight}

ScrollGate ==
  /\ ~updatedThisFrame
  /\ \E y \in GatePositions :
       /\ gate.entered \/ y = 0
       /\ ScrollTriggerUpdate(y)

TickGate == \E dt \in GateTicks : GsapTick(dt)

NextGate == EnterClick \/ TickGate \/ AppCommit \/ ScrollGate \/ CraneMount

SpecGate == InitStore /\ [][NextGate]_vars

\* The reveal: the crane's load at any time, then frames, requests, scroll
\* movements and ticks shorter than the reveal.
RevealTicks == {50, TransitionDuration}

FrameReveal ==
  \E delta \in UniformDeltas, state \in CraneFrameStates : CraneFrame(delta, state)

TickReveal == \E dt \in RevealTicks : GsapTick(dt)

NextReveal ==
  \/ CraneMount
  \/ FrameReveal
  \/ RequestCrane
  \/ ScrollBuild
  \/ TickReveal

InitReveal ==
  /\ InitCanvas
  /\ gate = GateClosed
  /\ observers = CanvasObservers
  /\ handles = AttachedHandles
  /\ \E g \in {CraneModel, Gltf(FALSE, FALSE, TRUE, 1, MinVertices)} :
       CraneSuspended(g)
  /\ timeline = NoTweens
  /\ element = InitialElement

SpecReveal == InitReveal /\ [][NextReveal]_vars

\* The sub-sampling: meshes of a few vertices, of exactly the particle
\* budget and of one vertex more.
SampleVertexCounts ==
  MinVertices..(MinVertices + 2) \cup {MAX_PARTICLES, MAX_PARTICLES + 1}

InitSample ==
  /\ InitCanvas
  /\ gate = GateClosed
  /\ observers = CanvasObservers
  /\ handles = AttachedHandles
  /\ \E vertexCount \in SampleVertexCounts :
       CraneSuspended(Gltf(TRUE, TRUE, TRUE, 1, vertexCount))
  /\ timeline = NoTweens
  /\ element = InitialElement

NextSample == SampleStep

SpecSample == InitSample /\ [][NextSample]_vars

\* C24: the particle count is the smaller of the mesh's vertex count and
\* MAX_PARTICLES, the stride is the vertex count divided by the particle
\* count, rounded up, and the particle the loop wrote last, particle i - 1,
\* took vertex min((i - 1) * stride, vertexCount - 1), a vertex of the mesh;
\* a mesh within the budget gives particle i - 1 vertex i - 1.
C24_SubsampleInRange ==
  LET vertexCount == sample.vertexCount
      particleCount == IF vertexCount <= 45630 THEN vertexCount ELSE 45630
      last == sample.i - 1
  IN  /\ sample.particleCount = particleCount
      /\ sample.stride * particleCount >= vertexCount
      /\ (sample.stride - 1) * particleCount < vertexCount
      /\ sample.i > 0 =>
           /\ sample.srcIdx \in 0..(vertexCount - 1)
           /\ \/ sample.srcIdx = last * sample.stride
              \/ /\ sample.srcIdx = vertexCount - 1
                 /\ last * sample.stride >= vertexCount - 1
           /\ vertexCount <= 45630 => sample.srcIdx = last

\* The loop has written the last particle of a mesh over the budget, from
\* the mesh's last vertex.
C24_Witness ==
  /\ sample.vertexCount > MAX_PARTICLES
  /\ sample.i = sample.particleCount
  /\ sample.srcIdx = sample.vertexCount - 1

(***************************************************************************)
(* Properties of the store.                                                *)
(***************************************************************************)
\* The helix's state uniforms hold the descriptor of stateName.
HelixAt(stateName) ==
  LET state == particleStates[stateName]
  IN  /\ helix.uHelixTightness.value = state.tightness
      /\ helix.uHelixRadius.value = state.radius
      /\ helix.uFlowSpeed.value = state.speed
      /\ helix.uParticleOpacity.value = state.opacity

\* The crane's state uniforms hold the descriptor of stateName.
CraneAt(stateName) ==
  LET state == craneStates[stateName]
  IN  /\ crane.uScale.value = state.scale
      /\ crane.uOpacity.value = state.opacity
      /\ crane.uDispersion.value = state.dispersion
      /\ crane.uNoiseIntensity.value = state.noiseIntensity
      /\ crane.uTargetPosition = Vector3(state.position)
      /\ crane.uRotation = Vector3(state.rotation)

\* C1 (as stated): a transitionToState call with a name that has no
\* descriptor in the state tables starts no tween and leaves every uniform
\* and the crane's animation speed as they were.
C1_UnknownNameIsNoOp ==
  [][(requests' # requests /\ lastRequest' \notin DOMAIN particleStates)
       => UNCHANGED storeVars]_vars

\* C2 (as stated): once a later transition has been requested, no parameter
\* is written again with a value that moves it toward the earlier request's
\* target.
C2_NeverWrittenTowardOldTarget == ~supersededWrite

\* C3 (as stated): every animatable parameter has at most one live tween.
C3_AtMostOneTweenPerParameter ==
  \A obj \in DOMAIN timeline :
     obj[1] \in {"helix", "crane"} =>
       \A i \in 1..Len(timeline[obj]) : ~Superseded(timeline[obj], i)

\* C4: once the tween duration has passed since the latest transition
\* request that found a descriptor, with no request since, every state
\* uniform of the visual holds that descriptor's value, and keeps it until
\* the next request; also when the request came while earlier tweens ran.
C4_SettlesAtRequestedState ==
  sinceRequest >= TransitionDuration =>
    /\ target.helix \in DOMAIN particleStates => HelixAt(target.helix)
    /\ target.crane \in DOMAIN craneStates => CraneAt(target.crane)

\* Both visuals have settled at "team", requested while the tweens toward
\* "quote" were running: in this very tick those still wrote.
C4_Witness ==
  /\ supersededWrite
  /\ sinceRequest >= TransitionDuration
  /\ target.helix = "team" /\ target.crane = "team"
  /\ HelixAt("team") /\ CraneAt("team")

\* C26 (as stated): whenever the crane is mounted, the section it targets
\* is the section the helix targets, also when it mounted after requests
\* had reached the helix alone.
C26_CraneTargetsHelixSection == craneMounted => target.crane = target.helix

(***************************************************************************)
(* Properties of the section bridge.                                       *)
(***************************************************************************)
\* C5: at most one of the eight sections is active.
C5_AtMostOneActive == Cardinality(ActiveSections(isActive)) <= 1

\* A jump from the bottom up to "team" has passed over four sections and
\* left "team" alone active.
C5_Witness ==
  /\ calls = <<"quote", "process", "services", "philosophy", "team">>
  /\ ActiveSections(isActive) = {"team"}

\* Times the identifier id was passed to onEnter in this frame's update.
CallsFor(id) == Cardinality({i \in 1..Len(calls) : calls[i] = id})

\* C6: whenever a scroll movement takes the viewport's center down over the
\* top edge of a section's region, or up over its bottom edge, that update
\* requests the transition to that section exactly once, whatever was
\* visited before.
C6_OneRequestPerEntry ==
  [][\A k \in 1..SectionCount :
       (\/ scrollY <= SectionStart(k) /\ SectionStart(k) < scrollY'
        \/ scrollY >= SectionEnd(k) /\ SectionEnd(k) > scrollY')
         => CallsFor(SectionIds[k])' = 1]_vars

\* "problem" has been re-entered from below, after "team" was entered, and
\* the request for it was issued once more.
C6_Witness ==
  /\ calls = <<"problem">>
  /\ trigger.team = 0
  /\ lastRequest = "problem"
  /\ updates >= 2
  /\ scrollY = ViewportHeight

\* C25: after every scroll movement, a jump over several regions in either
\* direction included, the name of the most recent transition request is
\* the section whose region holds the viewport's center.
C25_LastRequestIsActiveSection ==
  \A k \in 1..SectionCount :
    (SectionStart(k) < scrollY /\ scrollY < SectionEnd(k))
      => lastRequest = SectionIds[k]

\* One jump from the bottom up into "problem", over five sections, after an
\* earlier scroll movement.
C25_Witness ==
  /\ calls = <<"quote", "process", "services", "philosophy", "team", "problem">>
  /\ scrollY = ViewportHeight
  /\ lastRequest = "problem"
  /\ updates >= 2

\* C29: each of the eight identifiers the sections pass to onSectionChange
\* has a descriptor in the helix's and in the crane's state table, so every
\* request of a scroll update found its descriptor: the last one is the
\* target of the helix and, when mounted, of the crane.
C29_SectionIdsHaveDescriptors ==
  /\ SectionNames \subseteq (DOMAIN particleStates \cap DOMAIN craneStates)
  /\ \A i \in 1..Len(calls) :
       /\ calls[i] \in DOMAIN particleStates
       /\ calls[i] \in DOMAIN craneStates
  /\ calls # <<>> =>
       /\ target.helix = calls[Len(calls)]
       /\ craneMounted => target.crane = calls[Len(calls)]

\* The scroll has gone to the bottom in one movement: each section below
\* the first has requested its state, "cta" last, with the crane mounted.
C29_Witness ==
  /\ calls = <<"problem", "team", "philosophy", "services", "process",
               "quote", "cta">>
  /\ craneMounted
  /\ target = [helix |-> "cta", crane |-> "cta"]

\* No fade of a content element is running.
ContentSettled == \A id \in SectionNames : timeline[<<"content", id>>] = <<>>

\* C7 (as stated): after the viewport's center has crossed from section p
\* into section s, p is inactive and s active, and once their fades have
\* finished p's content has opacity 0 and s's has opacity 1.
C7_CrossingFadesSettle ==
  crossed # <<>> =>
    /\ ~isActive[crossed[1]]
    /\ isActive[crossed[2]]
    /\ ContentSettled =>
         /\ content[crossed[1]].opacity = 0
         /\ content[crossed[2]].opacity = One

\* A tween to opacity 1 on hero's content is live or has finished.
HeroFadeInStarted ==
  \/ content.hero.opacity = One
  \/ \E i \in 1..Len(timeline[<<"content", "hero">>]) :
        timeline[<<"content", "hero">>][i].to.opacity = One

\* Nothing has been scrolled: ScrollTrigger has not updated yet, or its only
\* update found the page at the top.
NoCrossingYet == updates = 0 \/ (updates = 1 /\ scrollY = 0)

\* C8: on load, as long as no scroll has crossed into another section,
\* "hero" is active with its content's fade-in started, every other section
\* is inactive, and the state uniforms of both visuals hold the "hero"
\* descriptor.
C8_HeroOnLoad ==
  NoCrossingYet =>
    /\ ActiveSections(isActive) = {"hero"}
    /\ HeroFadeInStarted
    /\ HelixAt("hero")
    /\ CraneAt("hero")

\* Loaded, the hero's fade-in finished, ScrollTrigger's first update made at
\* the top of the page.
C8_Witness ==
  /\ NoCrossingYet
  /\ updates = 1
  /\ lastRequest = "hero"
  /\ craneMounted
  /\ content.hero.opacity = One
  /\ timeline = NoTweens

(***************************************************************************)
(* Properties of the scroll progress scalar.                               *)
(***************************************************************************)
UScrollInRange == 0 <= helix.uScroll.value /\ helix.uScroll.value <= One

\* The scrub tween has finished: 0 at the top of the document, 1 at the
\* bottom.
UScrollAtRest ==
  ~scrubTween.active =>
    /\ scrollY = 0 => helix.uScroll.value = 0
    /\ scrollY = MaxScroll => helix.uScroll.value = One

\* C9 (as stated): uScroll lies in [0,1], is 0 at rest at the top and 1 at
\* rest at the bottom, and never decreases during a scroll that moves only
\* downward from the top of the document.
C9_NonDecreasingFromTop ==
  /\ [](UScrollInRange /\ UScrollAtRest)
  /\ [][downRun.fromTop /\ downRun'.fromTop
          => helix'.uScroll.value >= helix.uScroll.value]_vars

\* C9 (amended): uScroll lies in [0,1], is 0 at rest at the top and 1 at
\* rest at the bottom, and never decreases during a scroll that moves only
\* downward from the top of the document and began there at rest, the
\* scrub tween finished and uScroll at 0.
C9_NonDecreasingFromRest ==
  /\ [](UScrollInRange /\ UScrollAtRest)
  /\ [][downRun.fromRest /\ downRun'.fromRest
          => helix'.uScroll.value >= helix.uScroll.value]_vars

\* A scroll from rest at the top has come to rest at the bottom.
C9_Witness ==
  /\ downRun.fromRest
  /\ scrollY = MaxScroll
  /\ ~scrubTween.active
  /\ helix.uScroll.value = One

(***************************************************************************)
(* Properties of the two channels of the helix.                            *)
(***************************************************************************)
HelixStateUniforms ==
  {"uHelixTightness", "uHelixRadius", "uFlowSpeed", "uParticleOpacity"}

\* C10: a transitionToState call leaves uScroll, the trigger's progress and
\* the scrub tween alone and puts no tween on uScroll; a ScrollTrigger
\* update leaves the state uniforms and every transition tween alone; the
\* scrub tween's render changes no state uniform, and no uScroll changes
\* while the scrub tween is idle.
C10_ChannelsIndependent ==
  [][/\ requests' # requests =>
          /\ helix'.uScroll = helix.uScroll
          /\ UNCHANGED scrollVars
     /\ timeline'[<<"helix", "uScroll">>] = <<>>
     /\ (~updatedThisFrame /\ updatedThisFrame') =>
          /\ \A u \in HelixStateUniforms : helix'[u] = helix[u]
          /\ UNCHANGED <<timeline, crane, animationState>>
     /\ (\A u \in HelixStateUniforms : timeline[<<"helix", u>>] = <<>>) =>
          \A u \in HelixStateUniforms : helix'[u] = helix[u]
     /\ ~scrubTween.active => helix'.uScroll = helix.uScroll]_vars

\* A request and a scroll movement in one frame, while uScroll is under way.
C10_Witness ==
  /\ updatedThisFrame
  /\ sinceRequest = 0
  /\ requests > 0
  /\ scrubTween.active
  /\ timeline[<<"helix", "uHelixRadius">>] # <<>>
  /\ helix.uScroll.value \notin {0, One}

(***************************************************************************)
(* Properties of the crane's keyframes.                                    *)
(***************************************************************************)
\* The model has a skinned mesh with a skeleton, and a clip.
Complete(g) == g.isSkinnedMesh /\ g.skeleton /\ g.clip

\* The clip time at which the array keyframePositions[k] holds was sampled.
SampledAt(kp, arr, k) == arr[kp[k + 1]].time

\* C11: for a model with a skinned mesh and a clip of duration D, the
\* sampling leaves exactly KEYFRAME_COUNT = 30 position arrays, the k-th
\* sampled at clip time k/29 * D: the first at 0, the last at D, the times
\* evenly spaced and strictly increasing.
C11_KeyframeSampling ==
  [][(~craneMounted /\ craneMounted' /\ Complete(gltf)) =>
       /\ particleData' # Null
       /\ Len(keyframePositions') = 30
       /\ Cardinality({keyframePositions'[k] : k \in 1..30}) = 30
       /\ \A k \in 0..29 :
            LET t == SampledAt(keyframePositions', arrays', k)
            IN  t.num * 29 = k * gltf.duration * t.den
       /\ SampledAt(keyframePositions', arrays', 0).num = 0
       /\ LET t == SampledAt(keyframePositions', arrays', 29)
          IN  t.num = gltf.duration * t.den
       /\ \A k \in 0..28 :
            LET t0 == SampledAt(keyframePositions', arrays', k)
                t1 == SampledAt(keyframePositions', arrays', k + 1)
                s0 == SampledAt(keyframePositions', arrays', 0)
                s1 == SampledAt(keyframePositions', arrays', 1)
            IN  /\ t1.num * t0.den > t0.num * t1.den
                /\ (t1.num - t0.num) * s1.den = (s1.num - s0.num) * t1.den]_vars

\* The longest clip has just been sampled.
C11_Witness ==
  /\ craneMounted
  /\ accumulated = 0
  /\ gltf.duration = MaxClipDuration
  /\ Len(keyframePositions) = KEYFRAME_COUNT
  /\ arrays[29].time.num = MaxClipDuration * arrays[29].time.den

\* C12: with a model that lacks a skinned mesh, a skeleton or a clip, no
\* exception is ever raised, and once the component has mounted it has no
\* particle data and no keyframes, renders nothing, has started no reveal
\* tween, and its per-frame update has changed nothing.
C12_NoMeshNoParticles ==
  ~Complete(gltf) =>
    /\ ~threw
    /\ craneMounted =>
         /\ particleData = Null
         /\ keyframePositions = <<>>
         /\ arrays = <<>>
         /\ ~meshRef /\ aPosition0 = Null /\ aPosition1 = Null
         /\ timeline[<<"crane", "uRevealProgress">>] = <<>>
         /\ crane.uRevealProgress.value = 0
         /\ animationState.currentKeyframe = 0
         /\ animationState.frameAccumulator = 0
         /\ crane.uAnimationProgress.value = 0

\* A model with a skinned mesh and no clip has mounted, and a
\* transitionToState("team") on it has run its course.
C12_Witness ==
  /\ gltf.isSkinnedMesh /\ gltf.skeleton /\ ~gltf.clip
  /\ craneMounted
  /\ ~threw
  /\ target.crane = "team"
  /\ CraneAt("team")
  /\ animationState.animationSpeed = craneStates.team.animationSpeed

(***************************************************************************)
(* Properties of the helix's geometry.                                     *)
(***************************************************************************)
\* C13: the entry the loop wrote at index i has strand = floor(i / 3000),
\* one of 0..4, and progress = (i mod 3000) / 3000, within [0,1], whatever
\* random value went with it; and at the loop's end each of the 5 strands
\* has 3000 particles.
C13_StrandAndProgress ==
  particles.written =>
    LET i == particles.i - 1
        strand == particles.strand
        progress == particles.progress
    IN  /\ 0 <= i /\ i < 15000
        /\ 3000 * strand <= i /\ i < 3000 * (strand + 1)
        /\ strand \in 0..4
        /\ progress.den = 3000
        /\ progress.num = i - 3000 * strand
        /\ 0 <= progress.num /\ progress.num <= progress.den
        /\ particles.i = 15000 =>
             /\ DOMAIN particles.perStrand = 0..4
             /\ \A strandId \in 0..4 : particles.perStrand[strandId] = 3000

\* The loop has filled strand 0 and written the first particle of strand 1.
C13_Witness ==
  /\ particles.i = particlesPerStrand + 1
  /\ particles.strand = 1
  /\ particles.progress.num = 0
  /\ particles.perStrand[0] = 3000
  /\ particles.random = 99

(***************************************************************************)
(* Properties of teardown.                                                 *)
(***************************************************************************)
\* C14: once a component that created scroll observers is torn down (the
\* helix with its scrubbed timeline, a section with its trigger, the camera
\* controller with its scrubbed tween), every observer and timeline it
\* created is killed: it is no longer among the live triggers, and in no
\* later step does it record a progress, toggle, fire a callback or drive
\* the value it was driving.
C14_KilledObserversSilent ==
  [][\A c \in unmounted :
       /\ c \notin observers
       /\ c \notin observers'
       /\ c \in SectionNames =>
            /\ trigger'[c] = trigger[c]
            /\ isActive'[c] = isActive[c]
       /\ c = "helix" =>
            /\ stProgress' = stProgress
            /\ tlProgress' = tlProgress
            /\ ~scrubTween'.active
            /\ (timeline[<<"helix", "uScroll">>] = <<>>
                  => helix'.uScroll = helix.uScroll)
       /\ c = "camera" => camera' = camera]_vars

\* The helix and the first section are torn down at the top of the page and
\* the page is then scrolled one viewport down: neither has moved, while
\* the camera's trigger and the second section's, still live, have.
C14_Witness ==
  /\ "helix" \in unmounted
  /\ "hero" \in unmounted
  /\ "camera" \notin unmounted
  /\ scrollY = ViewportHeight
  /\ updatedThisFrame
  /\ stProgress = 0
  /\ isActive["hero"]
  /\ isActive["problem"]
  /\ camera.stProgress > 0

\* C27 (as stated): the camera controller's teardown releases its own scroll
\* observer and no other: the observers of the components still mounted stay
\* live.
C27_CameraTeardownKeepsOthers ==
  [][("camera" \notin unmounted /\ "camera" \in unmounted')
       => observers' = observers \ {"camera"}]_vars

\* C15: once a component is torn down, no tween it started (a state
\* transition tween of a visual, the crane's reveal tween, a section's fade
\* tweens) writes a value again: every one of them was released.
C15_NoWriteAfterTeardown == ~lateWrite

(***************************************************************************)
(* Properties of the uniforms' writers.                                    *)
(***************************************************************************)
\* C16: within each visual, the uniforms a frame callback has written (time,
\* smoothed pointer, viewport size, the helix's rotation angle, the crane's
\* keyframe interpolation factor) and the uniforms a tween has written (state
\* parameters, scroll progress, reveal progress) are disjoint.
C16_WritersDisjoint == writers.frame \cap writers.tween = {}

\* Both frame callbacks have run and tweens have written the helix's state
\* parameters and scroll progress and the crane's state parameters and
\* reveal progress.
C16_Witness ==
  /\ <<"helix", "uRotation">> \in writers.frame
  /\ <<"crane", "uAnimationProgress">> \in writers.frame
  /\ <<"helix", "uScroll">> \in writers.tween
  /\ <<"helix", "uFlowSpeed">> \in writers.tween
  /\ <<"crane", "uRevealProgress">> \in writers.tween
  /\ <<"crane", "uRotation">> \in writers.tween

(***************************************************************************)
(* Properties of the notification's route.                                 *)
(***************************************************************************)
\* The calls a step has added to the record.
Added == SubSeq(received', Len(received) + 1, Len(received'))

Called(rec, component) == {i \in 1..Len(rec) : rec[i][1] = component}

\* C17: a section-change notification with identifier s passes App,
\* Experience and Scene in that order and reaches every mounted visual as
\* exactly one transitionToState(s) with the same name; where a ref holds no
\* handle the request is dropped at that level, nothing below is called and
\* no error is raised.
C17_NotificationRoute ==
  [][Len(received') > Len(received) =>
       LET rec == Added
           s == rec[1][2]
           reachesScene == handles.experienceRef /\ handles.sceneRef
       IN  /\ rec[1][1] = "App"
           /\ \A i \in 1..Len(rec) : rec[i][2] = s /\ rec[i][1] # "TypeError"
           /\ Cardinality(Called(rec, "App")) = 1
           /\ Cardinality(Called(rec, "Experience"))
                = IF handles.experienceRef THEN 1 ELSE 0
           /\ Cardinality(Called(rec, "Scene")) = IF reachesScene THEN 1 ELSE 0
           /\ Cardinality(Called(rec, "EtherealParticles"))
                = IF reachesScene /\ handles.particlesRef THEN 1 ELSE 0
           /\ Cardinality(Called(rec, "CraneParticles"))
                = IF reachesScene /\ craneMounted THEN 1 ELSE 0
           /\ \A i, j \in 1..Len(rec) :
                (rec[i][1] = "Experience" /\ rec[j][1] = "Scene") => i < j
           /\ \A i, j \in 1..Len(rec) :
                (rec[i][1] = "Scene"
                  /\ rec[j][1] \in {"EtherealParticles", "CraneParticles"})
                  => i < j
           /\ handles.experienceRef => rec[2][1] = "Experience"
           /\ ~reachesScene => UNCHANGED <<timeline, animationState, target>>]_vars

\* One notification was dropped by Experience, before the canvas's commit,
\* and the next reached both visuals.
C17_Witness ==
  /\ craneMounted
  /\ received = <<<<"App", "team">>, <<"Experience", "team">>,
                  <<"App", "quote">>, <<"Experience", "quote">>,
                  <<"Scene", "quote">>, <<"EtherealParticles", "quote">>,
                  <<"CraneParticles", "quote">>>>
  /\ target = [helix |-> "quote", crane |-> "quote"]

(***************************************************************************)
(* Properties of the crane's playback.                                     *)
(***************************************************************************)
\* A frame in which the accumulator, with the frame's advance added, has
\* reached or passed 1.
ThresholdFrame ==
  /\ accumulated' >= One
  /\ animationState'.currentKeyframe # animationState.currentKeyframe

\* C18: on a frame where the accumulator reaches or passes 1, the current
\* keyframe advances by one modulo the keyframe count and the interpolation
\* factor pushed to the shader is the fractional remainder past the
\* threshold.
C18_RemainderPushed ==
  [][ThresholdFrame =>
       /\ animationState'.currentKeyframe
            = (animationState.currentKeyframe + 1) % 30
       /\ crane'.uAnimationProgress.value = accumulated' - One]_vars

\* C19: after every frame aPosition0 holds the positions sampled for
\* keyframe currentKeyframe and aPosition1 those sampled for keyframe
\* (currentKeyframe + 1) mod 30, across the wrap and in every later cycle.
C19_AttributesHoldCurrentPair ==
  (craneMounted /\ meshRef) =>
    /\ arrays[aPosition0.array]
         = Sampled(animationState.currentKeyframe, gltf)
    /\ arrays[aPosition1.array]
         = Sampled((animationState.currentKeyframe + 1) % 30, gltf)

\* C20: the array sampled for keyframe k holds, for ever after, what was
\* sampled for keyframe k.
C20_KeyframesNeverModified ==
  craneMounted =>
    \A k \in 1..Len(keyframePositions) :
      arrays[keyframePositions[k]] = Sampled(k - 1, gltf)

(***************************************************************************)
(* Properties of the builds.                                               *)
(***************************************************************************)
\* C21: the helix's build has run once and the crane's once per loaded
\* model: no frame, scroll update, transitionToState request or re-render
\* runs either again, and none changes the helix's per-particle
\* random, strand and progress values.
C21_BuildsRunOnce ==
  /\ builds.helix = 1
  /\ builds.crane = IF craneMounted THEN 1 ELSE 0
  /\ particles = ParticlesBuilt
  /\ craneMounted => keyframePositions = BuildParticles(gltf).keyframePositions

\* Both visuals have re-rendered and run frames, the page was scrolled and
\* a state requested, after the crane's keyframes had advanced.
C21_Witness ==
  /\ craneMounted
  /\ builds.renders = MaxRenders
  /\ <<"helix", "uTime">> \in writers.frame
  /\ animationState.currentKeyframe > 0
  /\ lastRequest = "team"
  /\ scrollY = MaxScroll

(***************************************************************************)
(* Properties of the playback's rate.                                      *)
(***************************************************************************)
\* The keyframe advances due after wall sixtieths of a second at
\* animationSpeed: wall / 60 * animationSpeed * 30.
AdvancesDue(wall, animationSpeed) == (wall * animationSpeed * 30) \div (60 * One)

\* C22: on each frame the accumulator grows by the time elapsed since the
\* previous frame times animationSpeed times 30, and over any wall-clock
\* time at constant speed the number of keyframe advances is, up to one
\* step, the number due, however the time is cut into frames.
C22_FrameRateIndependent ==
  [][played'.wall # played.wall =>
       /\ accumulated'
            = animationState.frameAccumulator
              + FrameAdvance(played'.wall - played.wall,
                             animationState.animationSpeed)
       /\ Abs(played'.advances
               - AdvancesDue(played'.wall, animationState.animationSpeed)) <= 1]_vars

\* The player's state is in range: the accumulator and the interpolation
\* factor within [0, 1), the keyframe one of the thirty.
PlayerInRange ==
  /\ 0 <= animationState.frameAccumulator
  /\ animationState.frameAccumulator < 100
  /\ crane.uAnimationProgress.value = animationState.frameAccumulator
  /\ animationState.currentKeyframe \in 0..29

\* C28: after every frame of the crane the accumulator, and with it the
\* interpolation factor, lies in [0, 1), the current keyframe is one of
\* 0..29, and the frame has advanced the keyframe by one step at most,
\* however large its delta.
C28_PlayerInRange ==
  /\ PlayerInRange
  /\ [][/\ PlayerInRange'
        /\ animationState'.currentKeyframe
             \in {animationState.currentKeyframe,
                  (animationState.currentKeyframe + 1) % 30}]_vars

\* A frame seven seconds after the previous one has taken the player over
\* the wrap, from keyframe 29 to keyframe 0.
C28_Witness ==
  /\ accumulated >= 2 * One
  /\ animationState.currentKeyframe = 0
  /\ animationState.frameAccumulator = 0
  /\ played.advances = MaxAdvances

\* The gate is at rest: no fade is running and App has rendered what the
\* setters queued.
GateAtRest ==
  /\ gate.fades = <<>>
  /\ gate.next = [entered |-> gate.entered, playing |-> gate.playing]

\* C30: until the page is entered no section's trigger exists and no
\* transition has been requested; once entered the page stays entered; and
\* when the fades of however many clicks have ended and App has rendered,
\* the page is entered and the audio is playing.
C30_EnterGate ==
  /\ [](~gate.entered =>
         /\ observers \cap SectionNames = {}
         /\ requests = 0
         /\ calls = <<>>
         /\ timeline[<<"helix", "uHelixRadius">>] = <<>>)
  /\ []((gate.clicks > 0 /\ GateAtRest) =>
         /\ gate.entered
         /\ gate.playing
         /\ ~gate.paused)
  /\ [][gate.entered => gate'.entered]_vars

\* The fades of three clicks have ended and App has rendered; the sections
\* are mounted and the page has been scrolled into the second one.
C30_Witness ==
  /\ gate.clicks = 3
  /\ GateAtRest
  /\ gate.entered
  /\ gate.opacity = 0
  /\ requests > 0
  /\ scrollY = ViewportHeight

\* The page is entered while the fade of a later click is still running.
FadeOutlivesEnterScreen == gate.entered /\ gate.fades # <<>> /\ gate.playing

(***************************************************************************)
(* Properties of the reveal.                                               *)
(***************************************************************************)
\* The reveal tween, when live.
RevealTrack == timeline[<<"crane", "uRevealProgress">>]

\* uRevealProgress is 0 until the crane has mounted with particle data, is
\* driven by one tween of the reveal's duration, and is 1 once it has ended.
RevealState ==
  /\ 0 <= crane.uRevealProgress.value
  /\ crane.uRevealProgress.value <= One
  /\ (~craneMounted \/ particleData = Null)
       => crane.uRevealProgress.value = 0 /\ RevealTrack = <<>>
  /\ Len(RevealTrack) <= 1
  /\ \A i \in 1..Len(RevealTrack) :
       /\ RevealTrack[i].dur = 150
       /\ RevealTrack[i].t < 150
  /\ (craneMounted /\ particleData # Null /\ RevealTrack = <<>>)
       => crane.uRevealProgress.value = One

\* C23: the reveal is one-shot: uRevealProgress starts at 0, rises only once
\* particle data is available, never decreases, is 1 once the tween of the
\* reveal's duration has ended, and no transitionToState request, frame or
\* scroll update resets or lowers it.
C23_RevealOneShot ==
  /\ RevealState
  /\ [][/\ RevealState'
        /\ crane'.uRevealProgress.value >= crane.uRevealProgress.value]_vars

\* The reveal is under way, about a third of its time gone, after a request,
\* a frame and a scroll movement.
C23_Witness ==
  /\ craneMounted
  /\ crane.uRevealProgress.value > 0
  /\ crane.uRevealProgress.value < One
  /\ lastRequest = "team"
  /\ requests > 0
  /\ <<"crane", "uTime">> \in writers.frame
  /\ scrollY = MaxScroll

=============================================================================
